---- MODULE Spec2Model ----
(***************************************************************************)
(* Verification model of the beacon-rewards epoch ingestion and reward     *)
(* accumulation engine: the backfill/live synchronizer, the per-epoch      *)
(* retry loop, the reward cache with its reset-and-persist cycle and the   *)
(* history log.                                                            *)
(***************************************************************************)
EXTENDS Integers, Sequences, FiniteSets, TLC

\* --------------------------------------------------------------------------
\* Epoch clock (utils): constants and conversions
\* --------------------------------------------------------------------------
SECONDS_PER_SLOT == 12
SLOTS_PER_EPOCH == 32
SECONDS_PER_EPOCH == SECONDS_PER_SLOT * SLOTS_PER_EPOCH
DefaultGenesisTimestamp == 1709532000

Max(a, b) == IF a >= b THEN a ELSE b
Min(a, b) == IF a <= b THEN a ELSE b

RECURSIVE Pow2(_)
Pow2(n) == IF n = 0 THEN 1 ELSE 2 * Pow2(n - 1)

\* TimeToEpoch with the genesis it loads: 0 before genesis, else
\* (t - genesis) / 12 / 32 (integer division)
TimeToEpochAt(genesis, ts) ==
    IF genesis > ts THEN 0
    ELSE ((ts - genesis) \div SECONDS_PER_SLOT) \div SLOTS_PER_EPOCH

\* Bug variant of EpochToTimeAt: the time the epoch starts
EpochToTimeAt_StartOfEpoch(genesis, epoch) == genesis + epoch * SECONDS_PER_EPOCH

\* EpochToTime with the genesis it loads: genesis + (epoch + 1) * 384, the
\* time epoch `epoch` is completed
EpochToTimeAt(genesis, epoch) == genesis + (epoch + 1) * SECONDS_PER_EPOCH

\* The conversions in the service, which runs with the default genesis
TimeToEpoch(ts) == TimeToEpochAt(DefaultGenesisTimestamp, ts)
EpochToTime(epoch) == EpochToTimeAt(DefaultGenesisTimestamp, epoch)

\* --------------------------------------------------------------------------
\* Big-integer wei values kept as big-endian byte sequences (math/big)
\* --------------------------------------------------------------------------
\* The recursive operators below bind each argument once (a \in {s}), so that
\* an argument is a value and is not evaluated again at every use
RECURSIVE Reverse(_)
Reverse(s) ==
    CHOOSE r \in { IF a = <<>> THEN <<>> ELSE Reverse(Tail(a)) \o <<Head(a)>> :
                      a \in {s} } : TRUE

RECURSIVE StripLeadingZeros(_)
StripLeadingZeros(s) ==
    CHOOSE r \in { IF a = <<>> THEN <<>>
                   ELSE IF Head(a) = 0 THEN StripLeadingZeros(Tail(a)) ELSE a :
                      a \in {s} } : TRUE

\* big.Int.SetBytes: the magnitude as normalised little-endian digits
SetBytes(b) == Reverse(StripLeadingZeros(b))

\* big.Int.Bytes: big-endian bytes without leading zeros (empty for zero)
Bytes(n) == StripLeadingZeros(Reverse(n))

RECURSIVE AddDigits(_, _, _)
AddDigits(x, y, carry) ==
    CHOOSE r \in
        { IF a = <<>> /\ b = <<>>
          THEN IF c = 0 THEN <<>> ELSE <<c>>
          ELSE LET dx == IF a = <<>> THEN 0 ELSE Head(a)
                   dy == IF b = <<>> THEN 0 ELSE Head(b)
                   s  == dx + dy + c
               IN  <<s % 256>> \o
                   AddDigits(IF a = <<>> THEN <<>> ELSE Tail(a),
                             IF b = <<>> THEN <<>> ELSE Tail(b),
                             s \div 256) :
          a \in {x}, b \in {y}, c \in {carry} } : TRUE

\* big.Int.Add on magnitudes
BigAdd(x, y) == AddDigits(x, y, 0)

\* --------------------------------------------------------------------------
\* Epoch income records (types.ValidatorEpochIncome) and accumulation
\* --------------------------------------------------------------------------
ZeroIncome ==
    [ AttestationSourceReward            |-> 0,
      AttestationSourcePenalty           |-> 0,
      AttestationTargetReward            |-> 0,
      AttestationTargetPenalty           |-> 0,
      AttestationHeadReward              |-> 0,
      FinalityDelayPenalty               |-> 0,
      ProposerSlashingInclusionReward    |-> 0,
      ProposerAttestationInclusionReward |-> 0,
      ProposerSyncInclusionReward        |-> 0,
      SyncCommitteeReward                |-> 0,
      SyncCommitteePenalty               |-> 0,
      SlashingReward                     |-> 0,
      SlashingPenalty                    |-> 0,
      TxFeeRewardWei                     |-> <<>>,
      ProposalsMissed                    |-> 0 ]

\* The uint64 fields of a record (every field but the wei bytes)
CounterFields == DOMAIN ZeroIncome \ {"TxFeeRewardWei"}

\* Bug variant of accumulateRewards: the entry is replaced by the new record
accumulateRewards_Overwrite(c, validatorIndex, income) ==
    [v \in DOMAIN c \cup {validatorIndex} |->
        IF v = validatorIndex THEN income ELSE c[v]]

\* Bug variant of accumulateRewards: the first record's wei bytes are not copied
accumulateRewards_DropFirstWei(c, validatorIndex, income) ==
    IF validatorIndex \notin DOMAIN c
    THEN [v \in DOMAIN c \cup {validatorIndex} |->
            IF v = validatorIndex THEN [income EXCEPT !.TxFeeRewardWei = <<>>] ELSE c[v]]
    ELSE LET existing == c[validatorIndex]
             summed   == [f \in DOMAIN ZeroIncome |->
                            IF f = "TxFeeRewardWei"
                            THEN IF Len(income.TxFeeRewardWei) > 0
                                 THEN Bytes(BigAdd(SetBytes(existing.TxFeeRewardWei),
                                                   SetBytes(income.TxFeeRewardWei)))
                                 ELSE existing.TxFeeRewardWei
                            ELSE existing[f] + income[f]]
         IN  [c EXCEPT ![validatorIndex] = summed]

\* accumulateRewards: a copy of the record on first sight of the validator,
\* field-wise addition afterwards; the wei bytes are added as big integers and
\* left alone when the incoming wei field is empty.  The uint64 additions are
\* modelled on values far below 2^64.
accumulateRewards(c, validatorIndex, income) ==
    IF validatorIndex \notin DOMAIN c
    THEN [v \in DOMAIN c \cup {validatorIndex} |->
            IF v = validatorIndex THEN income ELSE c[v]]
    ELSE LET existing == c[validatorIndex]
             summed   == [f \in DOMAIN ZeroIncome |->
                            IF f = "TxFeeRewardWei"
                            THEN IF Len(income.TxFeeRewardWei) > 0
                                 THEN Bytes(BigAdd(SetBytes(existing.TxFeeRewardWei),
                                                   SetBytes(income.TxFeeRewardWei)))
                                 ELSE existing.TxFeeRewardWei
                            ELSE existing[f] + income[f]]
         IN  [c EXCEPT ![validatorIndex] = summed]

EmptyCache == [v \in {} |-> ZeroIncome]

\* types.ValidatorEpochIncome.TotalClRewards: rewards minus penalties (signed)
TotalClRewards(income) ==
    ( income.AttestationSourceReward + income.AttestationTargetReward
    + income.AttestationHeadReward + income.ProposerSlashingInclusionReward
    + income.ProposerAttestationInclusionReward + income.ProposerSyncInclusionReward
    + income.SyncCommitteeReward + income.SlashingReward )
  - ( income.AttestationSourcePenalty + income.AttestationTargetPenalty
    + income.FinalityDelayPenalty + income.SyncCommitteePenalty
    + income.SlashingPenalty )

\* Bits of a byte, most significant first
ByteBits(b) == [i \in 1..8 |-> (b \div (2 ^ (8 - i))) % 2]

RECURSIVE BitsOf(_)
BitsOf(bytes) ==
    CHOOSE r \in { IF a = <<>> THEN <<>> ELSE ByteBits(Head(a)) \o BitsOf(Tail(a)) :
                      a \in {bytes} } : TRUE

\* Long division of a bit string by d: <<quotient, remainder>>
RECURSIVE DivBits(_, _, _, _)
DivBits(bits, d, q, r) ==
    CHOOSE res \in
        { IF a = <<>> THEN <<qa, ra>>
          ELSE LET r2 == 2 * ra + Head(a)
               IN  IF r2 >= d THEN DivBits(Tail(a), d, 2 * qa + 1, r2 - d)
                              ELSE DivBits(Tail(a), d, 2 * qa, r2) :
          a \in {bits}, qa \in {q}, ra \in {r} } : TRUE

GweiDivisor == 1000000000

\* new(big.Int).Div(wei, 10^9).Int64() on a big-endian wei byte sequence
WeiToGwei(weiBytes) == DivBits(BitsOf(weiBytes), GweiDivisor, 0, 0)[1]

\* --------------------------------------------------------------------------
\* Configuration (config.DefaultConfig) and model bounds
\* --------------------------------------------------------------------------
\* Number of backfill workers the model runs (BackfillConcurrency, at least 1)
BackfillConcurrency == 2
\* Number of epoch-length clock ticks a run may take
MaxTicks == 2
\* Capacity of the jobs channel per worker
JobsPerWorker == 16
\* Offset of the reset zone from UTC, in hours, and the length of a day in hours
ResetZoneHours == 8
HoursPerDay == 24

SecondsPerHour == 60 * 60
SecondsPerDay == HoursPerDay * SecondsPerHour

\* The run starts at the beginning of epoch 93, the last epoch that starts
\* before the first UTC+8 midnight after genesis
StartTime == DefaultGenesisTimestamp + 93 * SECONDS_PER_EPOCH
EndTime == StartTime + MaxTicks * SECONDS_PER_EPOCH

\* Bug variant of DefaultConfig: one attempt more than documented
DefaultConfig_SixRetries ==
    [ StartEpoch              |-> 0,
      EpochProcessMaxRetries  |-> 6,
      EpochProcessBaseBackoff |-> 2,
      EpochProcessMaxBackoff  |-> 30 ]

\* config.DefaultConfig: the retry policy defaults (backoffs in seconds)
DefaultConfig ==
    [ StartEpoch              |-> 0,
      EpochProcessMaxRetries  |-> 5,
      EpochProcessBaseBackoff |-> 2,
      EpochProcessMaxBackoff  |-> 30 ]

\* Configurations of the service runs: start epoch, lookback (seconds) and the
\* attempts allowed per epoch
Configs ==
    { [StartEpoch |-> 0,  BackfillLookback |-> 0, EpochProcessMaxRetries |-> 2],
      [StartEpoch |-> 0,  BackfillLookback |-> 2 * SECONDS_PER_EPOCH,
       EpochProcessMaxRetries |-> 2],
      [StartEpoch |-> 92, BackfillLookback |-> 0, EpochProcessMaxRetries |-> 1] }

Validators == {1, 2}
Live == 0
\* workerCount: a configured concurrency of 0 or less means one worker
workerCount(n) == IF n <= 0 THEN 1 ELSE n
Workers == 1..workerCount(BackfillConcurrency)
Procs == {Live} \cup Workers
NoEpoch == 0 - 1

\* safeHead = max(0, TimeToEpoch(now) - 2)
SafeHead(t) == Max(0, TimeToEpoch(t) - 2)

\* Next midnight in the fixed-offset reset zone strictly after t
NextMidnight(t) ==
    LET off == ResetZoneHours * SecondsPerHour
    IN  (((t + off) \div SecondsPerDay) + 1) * SecondsPerDay - off

\* Upstream data of an epoch as a successful GetRewardsForEpoch returns it:
\* validator 1 attests in every epoch; validator 2 proposes in even epochs
EpochRewards(epoch) ==
    LET r1 == [ZeroIncome EXCEPT !.AttestationHeadReward = 2,
                                 !.AttestationSourceReward = 1,
                                 !.AttestationTargetPenalty = epoch % 2]
        r2 == [ZeroIncome EXCEPT !.ProposerAttestationInclusionReward = 4,
                                 !.TxFeeRewardWei = <<89, 104, 47, 0>>]
    IN  IF epoch % 2 = 0 THEN (1 :> r1) @@ (2 :> r2) ELSE (1 :> r1)

VARIABLES
    now,              \* wall clock, unix seconds
    cfg,              \* the start configuration
    ctxDone,          \* the service context is cancelled
    cache,            \* validator index -> accumulated income
    latestSyncEpoch,  \* high-water mark
    cacheWindowStart, \* start of the current window
    cacheMux,         \* holder of the cache lock, or "free"
    history,          \* lines of the history log
    syncPc,           \* position of the synchronizer
    jobs,             \* the backfill jobs channel
    nextJob,          \* producer loop variable
    backfillTo,       \* last epoch of the backfill range
    backfillFrom,     \* first epoch of the backfill range
    proc,             \* per goroutine: position in the retry loop, epoch, safe head at pick
    resetPc,          \* position of the window resetter
    nextReset,        \* next reset boundary
    resetSnap,        \* snapshot computed by the running reset
    mergedCount,      \* history variable: merges per epoch
    clearedCl,        \* history variable: CL gwei of all snapshots taken
    resetStats,       \* history variable: resets seen / non-empty / appended
    liveSkipped,      \* history variable: epochs the live phase gave up on
    backfillSkipped   \* history variable: epochs a backfill worker gave up on

mainVars == << now, cfg, ctxDone, cache, latestSyncEpoch, cacheWindowStart, cacheMux,
               history, syncPc, jobs, nextJob, backfillTo, backfillFrom, proc,
               resetPc, nextReset, resetSnap, mergedCount, clearedCl, resetStats,
               liveSkipped, backfillSkipped >>

\* State of the accumulation-order runs
VARIABLES
    accRecs,    \* the records of one validator, as a list
    accUsedA,   \* positions already accumulated into accA
    accUsedB,   \* positions already accumulated into accB
    accA,       \* cache of the first run
    accB        \* cache of the second run

accVars == << accRecs, accUsedA, accUsedB, accA, accB >>

\* State of the retry loop of one epoch
VARIABLES
    rCfg,      \* the retry policy
    rPc,       \* "attempt", "wait", "succeeded" or "skipped"
    rAttempt,  \* number of the current attempt
    rBackoff,  \* the wait after the next failure
    rWaits     \* the waits taken so far

retryVars == << rCfg, rPc, rAttempt, rBackoff, rWaits >>

\* State of a network snapshot taken of a cache put together entry by entry
VARIABLES
    snapPick,  \* validator index -> number of the entry the cache holds for it
    snapOut    \* the last snapshot taken, if any

snapVars == << snapPick, snapOut >>

\* State of one call of Service.startEpoch
VARIABLES
    seIn,   \* the configuration, the time of the call and the window start
    seOut   \* the start epoch returned, if the call was made

seVars == << seIn, seOut >>

\* State of the epoch clock and of one conversion of an epoch to a time and back
VARIABLES
    genesisTimestamp,  \* the package variable genesisTimestamp
    rtEpoch,           \* the epoch converted
    rtTime,            \* EpochToTime(rtEpoch), once computed
    rtBack             \* TimeToEpoch of rtTime and of the second before it, once computed

rtVars == << genesisTimestamp, rtEpoch, rtTime, rtBack >>

\* State of one conversion of an epoch to the metadata store's column and back
VARIABLES
    cvEpoch,   \* the uint64 epoch, as limbs
    cvStored,  \* the int64 column value, as the limbs of its bit pattern
    cvBack     \* the uint64 read back

cvVars == << cvEpoch, cvStored, cvBack >>

\* State of the normalisation of one address input (strings are sequences of
\* one-character strings)
VARIABLES
    naInput,   \* the raw input
    naOnce,    \* NormalizeAddress(naInput), once called
    naTwice,   \* NormalizeAddress of the value of naOnce, once called
    naLookup   \* what the address-rewards lookup makes of naInput, once called

naVars == << naInput, naOnce, naTwice, naLookup >>

\* The top-addresses queries: sort field and order asked for, ORDER BY built
VARIABLES obSortBy, obOrder, obTable, obOrderClause
obVars == << obSortBy, obOrder, obTable, obOrderClause >>

\* The 31-day average APR: history and live snapshot given, averages returned
VARIABLES
    aprHistory,    \* ProjectAprPercent of the history entries, oldest first
    aprCurrent,    \* the current snapshot, or NilSnapshot
    aprAvg,        \* calculate31DayAverageAPR(history, current), once called
    aprAvgRecent   \* the same for the last 31 history entries alone, once called

aprVars == << aprHistory, aprCurrent, aprAvg, aprAvgRecent >>

\* removeOutliersIQR: values given, values kept and their average
VARIABLES
    iqrValues,     \* the APR values passed in
    iqrFiltered,   \* removeOutliersIQR(values), once called
    iqrAvg         \* the average APR of the values, the last being the current snapshot

iqrVars == << iqrValues, iqrFiltered, iqrAvg >>

\* State of one attempt of processEpoch: the upstream responses, the position
\* of every task of GetRewardsForEpoch, its rewards map, and the Reward Cache
VARIABLES
    gfIn,           \* the upstream responses of the attempt
    gfPhase,        \* "start", "running" or "returned"
    gfPc,           \* task -> "absent", "ready", "entry", "done" or "failed"
    gfRewards,      \* the rewards map of the running fetch
    gfResult,       \* what GetRewardsForEpoch returned: status and map
    gfCache,        \* the Reward Cache map
    gfLatest,       \* latestSyncEpoch
    gfWindowStart   \* the window start

gfVars == << gfIn, gfPhase, gfPc, gfRewards, gfResult, gfCache, gfLatest, gfWindowStart >>

\* Readers and a window reset against one processEpoch goroutine, with the
\* cache as Go keeps it: a map of pointers to income records
VARIABLES
    rdCache,        \* s.cache: validator index -> address of its record
    rdHeap,         \* address -> the income record allocated there
    rdMux,          \* s.cacheMux: "free", or "merge" while processEpoch holds it
    rdPc,           \* processEpoch: "off", "idle", "fetching", "merging" or "done"
    rdEpoch,        \* the epoch processEpoch is called with
    rdPending,      \* validators the merge loop has still to visit
    rdResets,       \* number of window resets so far
    rdWindowStart,  \* start of the current window
    rdLatest,       \* latestSyncEpoch
    rdStartedAt,    \* history variable: epoch -> resets seen when its fetch started
    rdWindow,       \* history variable: epochs with a contribution in the current map
    rdStable,       \* history variable: the cache at every boundary of a write section
    rdResult,       \* what the last read call returned to its caller
    rdSeen          \* what the caller last read in that result

rdVars == << rdCache, rdHeap, rdMux, rdPc, rdEpoch, rdPending, rdResets, rdWindowStart,
             rdLatest, rdStartedAt, rdWindow, rdStable, rdResult, rdSeen >>

\* backfillToUTCMidnight on a range longer than the jobs channel
VARIABLES
    bfConcurrency,  \* s.config.BackfillConcurrency as configured
    bfCtxDone,      \* s.ctx is cancelled
    bfPc,           \* backfill: "off", "produce", "wait" or "returned"
    bfEpoch,        \* the producer's loop variable
    bfJobs,         \* the jobs channel's buffer
    bfWorker,       \* worker -> position ("idle", "processing", "exited") and epoch
    bfProcessed     \* history variable: epoch -> number of processEpoch calls that returned

bfVars == << bfConcurrency, bfCtxDone, bfPc, bfEpoch, bfJobs, bfWorker, bfProcessed >>

\* State of a network snapshot taken with a window, a reset interval and a
\* metadata store
VARIABLES
    nsPick,         \* validator index -> number of the entry the cache holds for it
    nsWindowStart,  \* the window start
    nsLatest,       \* latestSyncEpoch
    nsInterval,     \* CacheResetInterval in seconds
    nsDb,           \* the Validator Metadata Store
    nsOut           \* the last snapshot taken, if any

nsVars == << nsPick, nsWindowStart, nsLatest, nsInterval, nsDb, nsOut >>

\* State of one GetTotalRewards call on a cache put together entry by entry
VARIABLES
    gtPick,  \* validator index -> number of the entry the cache holds for it
    gtOut    \* the indices and the result of the last call, if any

gtVars == << gtPick, gtOut >>

\* activeSecondsInWindow: the call made and what it returned
VARIABLES asCall
asVars == << asCall >>

\* The address-rewards handler against a cache that merges and resets
VARIABLES arCache, arWindowStart, arLatest, arReq, arPc, arReads, arSeen, arResult
arVars == << arCache, arWindowStart, arLatest, arReq, arPc, arReads, arSeen, arResult >>

\* The history file, its mutex, the appenders and what ReadAll returned
VARIABLES hsStore, hsFile, hsMu, hsPc, hsEntry, hsRet, hsLog, hsRead
hsVars == << hsStore, hsFile, hsMu, hsPc, hsEntry, hsRet, hsLog, hsRead >>

\* What a step of one specification leaves alone of the others
mainOnly == << accVars, retryVars, snapVars, seVars, rtVars, cvVars, naVars, obVars, aprVars, iqrVars, gfVars, rdVars, bfVars, nsVars, gtVars, asVars, arVars, hsVars >>
accOnly == << mainVars, retryVars, snapVars, seVars, rtVars, cvVars, naVars, obVars, aprVars, iqrVars, gfVars, rdVars, bfVars, nsVars, gtVars, asVars, arVars, hsVars >>
retryOnly == << mainVars, accVars, snapVars, seVars, rtVars, cvVars, naVars, obVars, aprVars, iqrVars, gfVars, rdVars, bfVars, nsVars, gtVars, asVars, arVars, hsVars >>
snapOnly == << mainVars, accVars, retryVars, seVars, rtVars, cvVars, naVars, obVars, aprVars, iqrVars, gfVars, rdVars, bfVars, nsVars, gtVars, asVars, arVars, hsVars >>
seOnly == << mainVars, accVars, retryVars, snapVars, rtVars, cvVars, naVars, obVars, aprVars, iqrVars, gfVars, rdVars, bfVars, nsVars, gtVars, asVars, arVars, hsVars >>
rtOnly == << mainVars, accVars, retryVars, snapVars, seVars, cvVars, naVars, obVars, aprVars, iqrVars, gfVars, rdVars, bfVars, nsVars, gtVars, asVars, arVars, hsVars >>
cvOnly == << mainVars, accVars, retryVars, snapVars, seVars, rtVars, naVars, obVars, aprVars, iqrVars, gfVars, rdVars, bfVars, nsVars, gtVars, asVars, arVars, hsVars >>
naOnly == << mainVars, accVars, retryVars, snapVars, seVars, rtVars, cvVars, obVars, aprVars, iqrVars, gfVars, rdVars, bfVars, nsVars, gtVars, asVars, arVars, hsVars >>
obOnly == << mainVars, accVars, retryVars, snapVars, seVars, rtVars, cvVars, naVars, aprVars, iqrVars, gfVars, rdVars, bfVars, nsVars, gtVars, asVars, arVars, hsVars >>
aprOnly == << mainVars, accVars, retryVars, snapVars, seVars, rtVars, cvVars, naVars, obVars, iqrVars, gfVars, rdVars, bfVars, nsVars, gtVars, asVars, arVars, hsVars >>
iqrOnly == << mainVars, accVars, retryVars, snapVars, seVars, rtVars, cvVars, naVars, obVars, aprVars, gfVars, rdVars, bfVars, nsVars, gtVars, asVars, arVars, hsVars >>
gfOnly == << mainVars, accVars, retryVars, snapVars, seVars, rtVars, cvVars, naVars, obVars, aprVars, iqrVars, rdVars, bfVars, nsVars, gtVars, asVars, arVars, hsVars >>
rdOnly == << mainVars, accVars, retryVars, snapVars, seVars, rtVars, cvVars, naVars, obVars, aprVars, iqrVars, gfVars, bfVars, nsVars, gtVars, asVars, arVars, hsVars >>
bfOnly == << mainVars, accVars, retryVars, snapVars, seVars, rtVars, cvVars, naVars, obVars, aprVars, iqrVars, gfVars, rdVars, nsVars, gtVars, asVars, arVars, hsVars >>
nsOnly == << mainVars, accVars, retryVars, snapVars, seVars, rtVars, cvVars, naVars, obVars, aprVars, iqrVars, gfVars, rdVars, bfVars, gtVars, asVars, arVars, hsVars >>
gtOnly == << mainVars, accVars, retryVars, snapVars, seVars, rtVars, cvVars, naVars, obVars, aprVars, iqrVars, gfVars, rdVars, bfVars, nsVars, asVars, arVars, hsVars >>
asOnly == << mainVars, accVars, retryVars, snapVars, seVars, rtVars, cvVars, naVars, obVars, aprVars, iqrVars, gfVars, rdVars, bfVars, nsVars, gtVars, arVars, hsVars >>
arOnly == << mainVars, accVars, retryVars, snapVars, seVars, rtVars, cvVars, naVars, obVars, aprVars, iqrVars, gfVars, rdVars, bfVars, nsVars, gtVars, asVars, hsVars >>
hsOnly == << mainVars, accVars, retryVars, snapVars, seVars, rtVars, cvVars, naVars, obVars, aprVars, iqrVars, gfVars, rdVars, bfVars, nsVars, gtVars, asVars, arVars >>

IdleProc == [pc |-> "none", epoch |-> NoEpoch, attempt |-> 0, pending |-> {},
             safeAtPick |-> NoEpoch]

RECURSIVE SumCl(_, _)
SumCl(c, S) ==
    IF S = {} THEN 0
    ELSE LET v == CHOOSE y \in S : TRUE
         IN  TotalClRewards(c[v]) + SumCl(c, S \ {v})

CacheClGwei(c) == SumCl(c, DOMAIN c)

RECURSIVE SumWei(_, _)
SumWei(c, S) ==
    IF S = {} THEN <<>>
    ELSE LET v == CHOOSE y \in S : TRUE
         IN  BigAdd(SetBytes(c[v].TxFeeRewardWei), SumWei(c, S \ {v}))

\* Bug variant of CacheElGwei: every entry's wei is divided, then the gwei summed
RECURSIVE CacheElGwei_DivideThenSum(_)
CacheElGwei_DivideThenSum(c) ==
    IF DOMAIN c = {} THEN 0
    ELSE LET v == CHOOSE y \in DOMAIN c : TRUE
         IN  WeiToGwei(c[v].TxFeeRewardWei)
             + CacheElGwei_DivideThenSum([w \in DOMAIN c \ {v} |-> c[w]])

CacheElGwei(c) == WeiToGwei(Bytes(SumWei(c, DOMAIN c)))

RECURSIVE Gcd(_, _)
Gcd(a, b) == IF b = 0 THEN a ELSE Gcd(b, a % b)

Fraction(num, den) ==
    LET g == Gcd(num, den) IN << num \div g, den \div g >>

\* config.DefaultConfig().CacheResetInterval, in seconds
CacheResetIntervalSeconds == HoursPerDay * SecondsPerHour

\* defaultEffectiveBalanceGwei (32 * 10^9). Effective balances are whole
\* multiples of 10^9 gwei and are kept in that unit
defaultEffectiveBalance == 32

\* The Validator Metadata Store: absent (a nil *DB), failing, or a validators table
NilDB == [status |-> "nil", rows |-> {}]
ErrDB == [status |-> "error", rows |-> {}]
TableDB(rows) == [status |-> "ok", rows |-> rows]

\* WHERE activation_epoch <= $1 AND exit_epoch > $1
ActiveRows(db, epoch) == { r \in db.rows : r.activation <= epoch /\ r.exit > epoch }

RECURSIVE SumBalances(_)
SumBalances(rows) ==
    IF rows = {} THEN 0
    ELSE LET r == CHOOSE x \in rows : TRUE
         IN  r.balance + SumBalances(rows \ {r})

\* DB.ActiveValidatorCount: (0, nil) on a nil store, (0, err) on a failed
\* query, else COUNT(*) of the active validators
ActiveValidatorCount(db, epoch) ==
    IF db.status = "nil" THEN [value |-> 0, err |-> FALSE]
    ELSE IF db.status = "error" THEN [value |-> 0, err |-> TRUE]
    ELSE [value |-> Cardinality(ActiveRows(db, epoch)), err |-> FALSE]

\* DB.TotalEffectiveBalance: (0, nil) on a nil store, (0, err) on a failed
\* query, else COALESCE(SUM(effective_balance), 0) of the active validators
TotalEffectiveBalance(db, epoch) ==
    IF db.status = "nil" THEN [value |-> 0, err |-> FALSE]
    ELSE IF db.status = "error" THEN [value |-> 0, err |-> TRUE]
    ELSE [value |-> SumBalances(ActiveRows(db, epoch)), err |-> FALSE]

\* An APR of 0
ZeroApr == [rewards |-> 0, balance |-> 1, scale |-> << 0, 1 >>]

\* (total / balance) * (interval / duration) * 100 * 365 kept as its factors:
\* total gwei over balance (in 10^9 gwei) and the reduced interval / duration;
\* 0 when the balance is 0 or the duration is not positive
ProjectApr(total, balance, interval, duration) ==
    IF balance = 0 \/ duration <= 0 \/ total = 0 THEN ZeroApr
    ELSE [rewards |-> total, balance |-> balance, scale |-> Fraction(interval, duration)]

\* Bug variant of NetworkSnapshot: a window without duration is reported as it is
NetworkSnapshot_ZeroDuration(c, windowStart, latest, interval, db, epoch) ==
    LET windowEnd == Max(EpochToTime(latest), windowStart)
        duration  == windowEnd - windowStart
        count     == ActiveValidatorCount(db, epoch)
        sum       == TotalEffectiveBalance(db, epoch)
        active    == IF count.err \/ count.value = 0 THEN Cardinality(DOMAIN c)
                     ELSE count.value
        balance   == IF sum.err \/ sum.value = 0
                     THEN Cardinality(DOMAIN c) * defaultEffectiveBalance
                     ELSE sum.value
        total     == CacheClGwei(c) + CacheElGwei(c)
    IN  [ window_start                 |-> windowStart,
          window_end                   |-> windowEnd,
          window_duration_seconds      |-> duration,
          active_validator_count       |-> active,
          cl_rewards_gwei              |-> CacheClGwei(c),
          el_rewards_gwei              |-> CacheElGwei(c),
          total_rewards_gwei           |-> total,
          total_effective_balance_gwei |-> balance,
          project_apr_percent          |-> ProjectApr(total, balance, interval, duration) ]

\* Bug variant of NetworkSnapshot: what the store answers is taken as it is
NetworkSnapshot_NoFallback(c, windowStart, latest, interval, db, epoch) ==
    LET windowEnd == Max(EpochToTime(latest), windowStart)
        span      == windowEnd - windowStart
        duration  == IF span <= 0 THEN interval ELSE span
        active    == ActiveValidatorCount(db, epoch).value
        balance   == TotalEffectiveBalance(db, epoch).value
        total     == CacheClGwei(c) + CacheElGwei(c)
    IN  [ window_start                 |-> windowEnd - duration,
          window_end                   |-> windowEnd,
          window_duration_seconds      |-> duration,
          active_validator_count       |-> active,
          cl_rewards_gwei              |-> CacheClGwei(c),
          el_rewards_gwei              |-> CacheElGwei(c),
          total_rewards_gwei           |-> total,
          total_effective_balance_gwei |-> balance,
          project_apr_percent          |-> ProjectApr(total, balance, interval, duration) ]

\* Network snapshot of the cache: the window (its end clamped to its start, a
\* window without duration replaced by one reset interval back from its end),
\* CL, EL (wei summed, then divided) and total, the active validators and
\* their balance from the store or, on an error or a zero, from the cache, and
\* the projected APR
NetworkSnapshot(c, windowStart, latest, interval, db, epoch) ==
    LET windowEnd == Max(EpochToTime(latest), windowStart)
        span      == windowEnd - windowStart
        duration  == IF span <= 0 THEN interval ELSE span
        count     == ActiveValidatorCount(db, epoch)
        sum       == TotalEffectiveBalance(db, epoch)
        active    == IF count.err \/ count.value = 0 THEN Cardinality(DOMAIN c)
                     ELSE count.value
        balance   == IF sum.err \/ sum.value = 0
                     THEN Cardinality(DOMAIN c) * defaultEffectiveBalance
                     ELSE sum.value
        total     == CacheClGwei(c) + CacheElGwei(c)
    IN  [ window_start                 |-> windowEnd - duration,
          window_end                   |-> windowEnd,
          window_duration_seconds      |-> duration,
          active_validator_count       |-> active,
          cl_rewards_gwei              |-> CacheClGwei(c),
          el_rewards_gwei              |-> CacheElGwei(c),
          total_rewards_gwei           |-> total,
          total_effective_balance_gwei |-> balance,
          project_apr_percent          |-> ProjectApr(total, balance, interval, duration) ]

\* Service.TotalNetworkRewards of a service with the default reset interval
\* and no metadata store
TotalNetworkRewards(c, windowStart, latest) ==
    NetworkSnapshot(c, windowStart, latest, CacheResetIntervalSeconds, NilDB,
                    TimeToEpoch(windowStart))

\* Bug variant of startEpoch: a lookback takes precedence over StartEpoch
startEpoch_LookbackFirst(c, t, windowStart) ==
    IF c.BackfillLookback > 0 THEN TimeToEpoch(t - c.BackfillLookback)
    ELSE IF c.StartEpoch # 0 THEN c.StartEpoch
    ELSE TimeToEpoch(windowStart)

\* Start-epoch policy: StartEpoch if nonzero, else now - lookback, else the window start
startEpoch(c, t, windowStart) ==
    IF c.StartEpoch # 0 THEN c.StartEpoch
    ELSE IF c.BackfillLookback > 0 THEN TimeToEpoch(t - c.BackfillLookback)
    ELSE TimeToEpoch(windowStart)

InitMain ==
    /\ now = StartTime
    /\ cfg \in Configs
    /\ ctxDone = FALSE
    /\ cache = EmptyCache
    /\ latestSyncEpoch = 0
    /\ cacheWindowStart = StartTime - 3 * SECONDS_PER_EPOCH
    /\ cacheMux = "free"
    /\ history = <<>>
    /\ syncPc = "start"
    /\ jobs = <<>>
    /\ nextJob = NoEpoch
    /\ backfillTo = NoEpoch
    /\ backfillFrom = NoEpoch
    /\ proc = [p \in Procs |-> IdleProc]
    /\ resetPc = "waiting"
    /\ nextReset = NextMidnight(StartTime)
    /\ resetSnap = <<>>
    /\ mergedCount = [e \in {} |-> 0]
    /\ clearedCl = 0
    /\ resetStats = [resets |-> 0, nonEmpty |-> 0, appended |-> 0]
    /\ liveSkipped = {}
    /\ backfillSkipped = {}

\* --------------------------------------------------------------------------
\* Clock and shutdown
\* --------------------------------------------------------------------------
\* Wall-clock time passes, one epoch length at a time
Tick ==
    /\ now < EndTime
    /\ now' = now + SECONDS_PER_EPOCH
    /\ UNCHANGED mainOnly
    /\ UNCHANGED << cfg, ctxDone, cache, latestSyncEpoch, cacheWindowStart, cacheMux,
                    history, syncPc, jobs, nextJob, backfillTo, backfillFrom, proc,
                    resetPc, nextReset, resetSnap, mergedCount, clearedCl, resetStats,
                    liveSkipped, backfillSkipped >>

\* Service.Stop: cancel the service context
Stop ==
    /\ ~ctxDone
    /\ ctxDone' = TRUE
    /\ UNCHANGED mainOnly
    /\ UNCHANGED << now, cfg, cache, latestSyncEpoch, cacheWindowStart, cacheMux,
                    history, syncPc, jobs, nextJob, backfillTo, backfillFrom, proc,
                    resetPc, nextReset, resetSnap, mergedCount, clearedCl, resetStats,
                    liveSkipped, backfillSkipped >>

\* --------------------------------------------------------------------------
\* Synchronizer: start and backfill (producer, workers)
\* --------------------------------------------------------------------------
syncFrame == << mainOnly, now, cfg, ctxDone, cache, latestSyncEpoch, cacheWindowStart, cacheMux,
                history, resetPc, nextReset, resetSnap, mergedCount, clearedCl,
                resetStats, liveSkipped, backfillSkipped >>

\* Service.Start: pick the start epoch and the backfill range [start..safeHead]
Start ==
    /\ syncPc = "start"
    /\ LET start == startEpoch(cfg, now, cacheWindowStart)
           to    == SafeHead(now)
       IN  /\ backfillTo' = to
           /\ backfillFrom' = start
           /\ IF start <= to
              THEN /\ syncPc' = "produce"
                   /\ nextJob' = start
                   /\ proc' = [p \in Procs |->
                                 IF p \in Workers THEN [IdleProc EXCEPT !.pc = "idle"]
                                                  ELSE proc[p]]
              ELSE /\ syncPc' = "handoff"
                   /\ UNCHANGED << nextJob, proc >>
    /\ UNCHANGED jobs
    /\ UNCHANGED syncFrame

\* Bug variant of producerHasNext: the loop runs one epoch past its range
producerHasNext_PastRange(epoch, to) == epoch <= to + 1

\* Producer loop bound: epochs from..to inclusive
producerHasNext(epoch, to) == epoch <= to

\* Bug variant of ProducerEnqueue: the epoch is sent twice
ProducerEnqueue_SendsTwice ==
    /\ syncPc = "produce"
    /\ producerHasNext(nextJob, backfillTo)
    /\ Len(jobs) + 1 < workerCount(BackfillConcurrency) * JobsPerWorker
    /\ jobs' = Append(Append(jobs, nextJob), nextJob)
    /\ nextJob' = nextJob + 1
    /\ UNCHANGED << syncPc, backfillTo, backfillFrom, proc >>
    /\ UNCHANGED syncFrame

\* Producer: jobs <- epoch, while the channel has room
ProducerEnqueue ==
    /\ syncPc = "produce"
    /\ producerHasNext(nextJob, backfillTo)
    /\ Len(jobs) < workerCount(BackfillConcurrency) * JobsPerWorker
    /\ jobs' = Append(jobs, nextJob)
    /\ nextJob' = nextJob + 1
    /\ UNCHANGED << syncPc, backfillTo, backfillFrom, proc >>
    /\ UNCHANGED syncFrame

\* Producer: the context is done, break out of the loop and close(jobs)
ProducerCancelled ==
    /\ syncPc = "produce"
    /\ producerHasNext(nextJob, backfillTo)
    /\ ctxDone
    /\ syncPc' = "wait"
    /\ UNCHANGED << jobs, nextJob, backfillTo, backfillFrom, proc >>
    /\ UNCHANGED syncFrame

\* Producer: the range is exhausted, close(jobs)
ProducerDone ==
    /\ syncPc = "produce"
    /\ ~producerHasNext(nextJob, backfillTo)
    /\ syncPc' = "wait"
    /\ UNCHANGED << jobs, nextJob, backfillTo, backfillFrom, proc >>
    /\ UNCHANGED syncFrame

\* Idle workers are interchangeable: the lowest-numbered idle worker stands for
\* whichever worker receives next, the highest-numbered for whichever returns next
lowestIdle(w) == \A w2 \in Workers : w2 < w => proc[w2].pc # "idle"
highestIdle(w) == \A w2 \in Workers : w2 > w => proc[w2].pc # "idle"

\* Worker: receive an epoch from jobs and start processing it
WorkerTake(w) ==
    /\ proc[w].pc = "idle"
    /\ lowestIdle(w)
    /\ jobs # <<>>
    /\ jobs' = Tail(jobs)
    /\ proc' = [proc EXCEPT ![w] = [pc |-> "fetching", epoch |-> Head(jobs),
                                    attempt |-> 1, pending |-> {},
                                    safeAtPick |-> backfillTo]]
    /\ UNCHANGED << syncPc, nextJob, backfillTo, backfillFrom >>
    /\ UNCHANGED syncFrame

\* Worker: the context is done, return
WorkerCancelled(w) ==
    /\ proc[w].pc = "idle"
    /\ highestIdle(w)
    /\ ctxDone
    /\ proc' = [proc EXCEPT ![w] = [IdleProc EXCEPT !.pc = "exited"]]
    /\ UNCHANGED << syncPc, jobs, nextJob, backfillTo, backfillFrom >>
    /\ UNCHANGED syncFrame

\* Worker: jobs is closed and drained, return
WorkerClosed(w) ==
    /\ proc[w].pc = "idle"
    /\ highestIdle(w)
    /\ jobs = <<>>
    /\ syncPc = "wait"
    /\ proc' = [proc EXCEPT ![w] = [IdleProc EXCEPT !.pc = "exited"]]
    /\ UNCHANGED << syncPc, jobs, nextJob, backfillTo, backfillFrom >>
    /\ UNCHANGED syncFrame

\* Bug variant of BackfillWait: backfill returns without wg.Wait
BackfillWait_NoWait ==
    /\ syncPc = "wait"
    /\ syncPc' = "handoff"
    /\ UNCHANGED << jobs, nextJob, backfillTo, backfillFrom, proc >>
    /\ UNCHANGED syncFrame

\* wg.Wait: backfill returns once every worker has exited
BackfillWait ==
    /\ syncPc = "wait"
    /\ \A w \in Workers : proc[w].pc = "exited"
    /\ syncPc' = "handoff"
    /\ UNCHANGED << jobs, nextJob, backfillTo, backfillFrom, proc >>
    /\ UNCHANGED syncFrame

\* --------------------------------------------------------------------------
\* Per-epoch retry loop and processEpoch (fetch, then merge under the lock)
\* --------------------------------------------------------------------------
procFrame == << mainOnly, now, cfg, ctxDone, cacheWindowStart, history, syncPc, jobs, nextJob,
                backfillTo, backfillFrom, resetPc, nextReset, resetSnap, clearedCl,
                resetStats >>

\* Another attempt is allowed after `attempt` failed ones
retryBudgetLeft(attempt, maxRetries) == attempt < maxRetries

\* Position of a goroutine once processing of its epoch ended without a merge
afterSkip(p) == [IdleProc EXCEPT !.pc = "idle"]

\* The epochs given up on so far, with the epoch of p added on p's side
skippedWith(skipped, p, live) ==
    IF (p = Live) = live THEN skipped \cup {proc[p].epoch} ELSE skipped

\* Bug variant of FetchFail: giving up on a live epoch moves the high-water
\* mark past it
FetchFail_AdvanceOnSkip(p) ==
    /\ proc[p].pc = "fetching"
    /\ IF retryBudgetLeft(proc[p].attempt, cfg.EpochProcessMaxRetries)
       THEN /\ proc' = [proc EXCEPT ![p].pc = "backoff"]
            /\ UNCHANGED << liveSkipped, backfillSkipped, latestSyncEpoch >>
       ELSE /\ proc' = [proc EXCEPT ![p] = afterSkip(p)]
            /\ liveSkipped' = skippedWith(liveSkipped, p, TRUE)
            /\ backfillSkipped' = skippedWith(backfillSkipped, p, FALSE)
            /\ latestSyncEpoch' = IF p = Live THEN proc[p].epoch ELSE latestSyncEpoch
    /\ UNCHANGED << cache, cacheMux, mergedCount >>
    /\ UNCHANGED procFrame

\* Bug variant of FetchFail: a failed attempt leaves the part it had fetched
\* in the cache
FetchFail_MergesPartial(p) ==
    /\ proc[p].pc = "fetching"
    /\ IF retryBudgetLeft(proc[p].attempt, cfg.EpochProcessMaxRetries)
       THEN /\ proc' = [proc EXCEPT ![p].pc = "backoff"]
            /\ cacheMux = "free"
            /\ cache' = accumulateRewards(cache, 1, EpochRewards(proc[p].epoch)[1])
            /\ UNCHANGED << liveSkipped, backfillSkipped >>
       ELSE /\ proc' = [proc EXCEPT ![p] = afterSkip(p)]
            /\ liveSkipped' = skippedWith(liveSkipped, p, TRUE)
            /\ backfillSkipped' = skippedWith(backfillSkipped, p, FALSE)
            /\ UNCHANGED cache
    /\ UNCHANGED << latestSyncEpoch, cacheMux, mergedCount >>
    /\ UNCHANGED procFrame

\* GetRewardsForEpoch returns an error: back off, or give up on the epoch
FetchFail(p) ==
    /\ proc[p].pc = "fetching"
    /\ IF retryBudgetLeft(proc[p].attempt, cfg.EpochProcessMaxRetries)
       THEN /\ proc' = [proc EXCEPT ![p].pc = "backoff"]
            /\ UNCHANGED << liveSkipped, backfillSkipped >>
       ELSE /\ proc' = [proc EXCEPT ![p] = afterSkip(p)]
            /\ liveSkipped' = skippedWith(liveSkipped, p, TRUE)
            /\ backfillSkipped' = skippedWith(backfillSkipped, p, FALSE)
    /\ UNCHANGED << cache, latestSyncEpoch, cacheMux, mergedCount >>
    /\ UNCHANGED procFrame

\* The backoff wait elapsed: next attempt
BackoffElapsed(p) ==
    /\ proc[p].pc = "backoff"
    /\ ~ctxDone
    /\ proc' = [proc EXCEPT ![p].pc = "fetching", ![p].attempt = @ + 1]
    /\ UNCHANGED << cache, latestSyncEpoch, cacheMux, mergedCount, liveSkipped, backfillSkipped >>
    /\ UNCHANGED procFrame

\* The context is cancelled during the backoff wait: abort the epoch
BackoffCancelled(p) ==
    /\ proc[p].pc = "backoff"
    /\ ctxDone
    /\ proc' = [proc EXCEPT ![p] = afterSkip(p)]
    /\ backfillSkipped' = skippedWith(backfillSkipped, p, FALSE)
    /\ UNCHANGED << cache, latestSyncEpoch, cacheMux, mergedCount, liveSkipped >>
    /\ UNCHANGED procFrame

\* Bug variant of MergeLock: the fetch returned and the merge starts without
\* taking the cache lock
MergeLock_NoMutex(p) ==
    /\ proc[p].pc = "fetching"
    /\ cacheMux' = cacheMux
    /\ proc' = [proc EXCEPT ![p].pc = "merging",
                            ![p].pending = DOMAIN EpochRewards(proc[p].epoch)]
    /\ mergedCount' = IF proc[p].epoch \in DOMAIN mergedCount
                      THEN [mergedCount EXCEPT ![proc[p].epoch] = @ + 1]
                      ELSE mergedCount @@ (proc[p].epoch :> 1)
    /\ UNCHANGED << cache, latestSyncEpoch, liveSkipped, backfillSkipped >>
    /\ UNCHANGED procFrame

\* processEpoch: GetRewardsForEpoch returned the epoch's rewards and
\* s.cacheMux.Lock() is acquired for the merge loop
MergeLock(p) ==
    /\ proc[p].pc = "fetching"
    /\ cacheMux = "free"
    /\ cacheMux' = "proc"
    /\ proc' = [proc EXCEPT ![p].pc = "merging",
                            ![p].pending = DOMAIN EpochRewards(proc[p].epoch)]
    /\ mergedCount' = IF proc[p].epoch \in DOMAIN mergedCount
                      THEN [mergedCount EXCEPT ![proc[p].epoch] = @ + 1]
                      ELSE mergedCount @@ (proc[p].epoch :> 1)
    /\ UNCHANGED << cache, latestSyncEpoch, liveSkipped, backfillSkipped >>
    /\ UNCHANGED procFrame

\* Bug variant of advanceLatestSyncEpoch: the mark is overwritten
advanceLatestSyncEpoch_Overwrite(latest, epoch) == epoch

\* The high-water mark after a merge of `epoch`
advanceLatestSyncEpoch(latest, epoch) == Max(latest, epoch)

\* Position of a goroutine once its epoch is merged: a worker goes back to its
\* select, the live loop looks at the next epoch
afterMerge(p, rec) ==
    IF p = Live THEN [rec EXCEPT !.pc = "done", !.pending = {}]
    ELSE [IdleProc EXCEPT !.pc = "idle"]

\* processEpoch: one iteration of the merge loop (map iteration order is
\* arbitrary); after the last one the high-water mark is recorded and
\* s.cacheMux.Unlock() releases the cache
MergeStep(p) ==
    /\ proc[p].pc = "merging"
    /\ \E v \in proc[p].pending :
          /\ cache' = accumulateRewards(cache, v, EpochRewards(proc[p].epoch)[v])
          /\ IF proc[p].pending = {v}
             THEN /\ latestSyncEpoch' = advanceLatestSyncEpoch(latestSyncEpoch, proc[p].epoch)
                  /\ cacheMux' = "free"
                  /\ proc' = [proc EXCEPT ![p] = afterMerge(p, proc[p])]
             ELSE /\ proc' = [proc EXCEPT ![p].pending = @ \ {v}]
                  /\ UNCHANGED << latestSyncEpoch, cacheMux >>
    /\ UNCHANGED << mergedCount, liveSkipped, backfillSkipped >>
    /\ UNCHANGED procFrame

\* --------------------------------------------------------------------------
\* Synchronizer: hand-off and live phase
\* --------------------------------------------------------------------------
liveFrame == << mainOnly, now, cfg, ctxDone, cache, cacheWindowStart, cacheMux, history, jobs,
                nextJob, backfillTo, backfillFrom, resetPc, nextReset, resetSnap, mergedCount,
                clearedCl, resetStats, liveSkipped, backfillSkipped >>

\* After backfill: latestSyncEpoch = max(latestSyncEpoch, safe head at backfill start)
Handoff ==
    /\ syncPc = "handoff"
    /\ cacheMux = "free"
    /\ latestSyncEpoch' = Max(latestSyncEpoch, backfillTo)
    /\ syncPc' = "live"
    /\ proc' = [proc EXCEPT ![Live] = [IdleProc EXCEPT !.pc = "idle"]]
    /\ UNCHANGED liveFrame

\* Live tick: recompute the safe head and start on latestSyncEpoch + 1
LiveTick ==
    /\ syncPc = "live"
    /\ proc[Live].pc = "idle"
    /\ ~ctxDone
    /\ latestSyncEpoch + 1 <= SafeHead(now)
    /\ proc' = [proc EXCEPT ![Live] = [pc |-> "fetching", epoch |-> latestSyncEpoch + 1,
                                       attempt |-> 1, pending |-> {},
                                       safeAtPick |-> SafeHead(now)]]
    /\ UNCHANGED << latestSyncEpoch, syncPc >>
    /\ UNCHANGED liveFrame

\* Live: after a merged epoch, go on to the next one up to the tick's safe head
LiveContinue ==
    /\ syncPc = "live"
    /\ proc[Live].pc = "done"
    /\ IF proc[Live].epoch + 1 <= proc[Live].safeAtPick /\ ~ctxDone
       THEN proc' = [proc EXCEPT ![Live] = [pc |-> "fetching",
                                            epoch |-> proc[Live].epoch + 1,
                                            attempt |-> 1, pending |-> {},
                                            safeAtPick |-> proc[Live].safeAtPick]]
       ELSE proc' = [proc EXCEPT ![Live] = [IdleProc EXCEPT !.pc = "idle"]]
    /\ UNCHANGED << latestSyncEpoch, syncPc >>
    /\ UNCHANGED liveFrame

\* Live: the context is done, the synchronizer stops
LiveStop ==
    /\ syncPc = "live"
    /\ proc[Live].pc = "idle"
    /\ ctxDone
    /\ syncPc' = "stopped"
    /\ UNCHANGED << latestSyncEpoch, proc >>
    /\ UNCHANGED liveFrame

\* --------------------------------------------------------------------------
\* History log and window resetter
\* --------------------------------------------------------------------------
\* Bug variant of HistoryAppend: the encoder writes the entry twice
HistoryAppend_Twice(lines, entry, ioOk) ==
    IF ioOk THEN Append(Append(lines, entry), entry) ELSE lines

\* HistoryStore.Append: one line per successful append, nothing on an I/O error
HistoryAppend(lines, entry, ioOk) == IF ioOk THEN Append(lines, entry) ELSE lines

resetFrame == << mainOnly, now, cfg, ctxDone, latestSyncEpoch, syncPc, jobs, nextJob, backfillTo, backfillFrom,
                 proc, mergedCount, liveSkipped, backfillSkipped >>

\* The boundary is reached: lock the cache and snapshot it when it is non-empty.
\* With the context done as well the select may still take this case
ResetFire ==
    /\ resetPc = "waiting"
    /\ now >= nextReset
    /\ cacheMux = "free"
    /\ cacheMux' = "reset"
    /\ IF DOMAIN cache # {}
       THEN /\ resetSnap' = << TotalNetworkRewards(cache, cacheWindowStart, latestSyncEpoch) >>
            /\ resetPc' = "snapshotted"
            /\ resetStats' = [resetStats EXCEPT !.nonEmpty = @ + 1]
       ELSE /\ resetSnap' = <<>>
            /\ resetPc' = "clearing"
            /\ UNCHANGED resetStats
    /\ clearedCl' = clearedCl + CacheClGwei(cache)
    /\ UNCHANGED << cache, cacheWindowStart, history, nextReset >>
    /\ UNCHANGED resetFrame

\* Bug variant of ResetAppend: a failed append abandons the reset
ResetAppend_AbortsOnError ==
    /\ resetPc = "snapshotted"
    /\ \E ioOk \in BOOLEAN :
          /\ history' = HistoryAppend(history, resetSnap[1], ioOk)
          /\ resetStats' = [resetStats EXCEPT !.appended = IF ioOk THEN @ + 1 ELSE @]
          /\ resetPc' = IF ioOk THEN "clearing" ELSE "waiting"
          /\ cacheMux' = IF ioOk THEN cacheMux ELSE "free"
    /\ UNCHANGED << cache, cacheWindowStart, nextReset, resetSnap, clearedCl >>
    /\ UNCHANGED resetFrame

\* Append the snapshot to the history log; the append may fail
ResetAppend ==
    /\ resetPc = "snapshotted"
    /\ \E ioOk \in BOOLEAN :
          /\ history' = HistoryAppend(history, resetSnap[1], ioOk)
          /\ resetStats' = [resetStats EXCEPT !.appended = IF ioOk THEN @ + 1 ELSE @]
    /\ resetPc' = "clearing"
    /\ UNCHANGED << cache, cacheWindowStart, cacheMux, nextReset, resetSnap, clearedCl >>
    /\ UNCHANGED resetFrame

\* Bug variant of ResetClear: the reset also restarts the high-water mark
ResetClear_ClearsHighWater ==
    /\ resetPc = "clearing"
    /\ cache' = EmptyCache
    /\ cacheWindowStart' = now
    /\ latestSyncEpoch' = 0
    /\ cacheMux' = "free"
    /\ nextReset' = NextMidnight(now)
    /\ resetSnap' = <<>>
    /\ resetPc' = "waiting"
    /\ resetStats' = [resetStats EXCEPT !.resets = @ + 1]
    /\ UNCHANGED << history, clearedCl >>
    /\ UNCHANGED << mainOnly, now, cfg, ctxDone, syncPc, jobs, nextJob, backfillTo, backfillFrom,
                    proc, mergedCount, liveSkipped, backfillSkipped >>

\* Replace the map, restart the window, unlock and schedule the next boundary
ResetClear ==
    /\ resetPc = "clearing"
    /\ cache' = EmptyCache
    /\ cacheWindowStart' = now
    /\ cacheMux' = "free"
    /\ nextReset' = NextMidnight(now)
    /\ resetSnap' = <<>>
    /\ resetPc' = "waiting"
    /\ resetStats' = [resetStats EXCEPT !.resets = @ + 1]
    /\ UNCHANGED << history, clearedCl >>
    /\ UNCHANGED resetFrame

\* Bug variant of ResetCancelled: the exiting resetter clears the cache and
\* restarts the window
ResetCancelled_ResetsOnExit ==
    /\ resetPc = "waiting"
    /\ ctxDone
    /\ cacheMux = "free"
    /\ resetPc' = "exited"
    /\ cache' = EmptyCache
    /\ cacheWindowStart' = now
    /\ UNCHANGED << cacheMux, history, nextReset, resetSnap, clearedCl, resetStats >>
    /\ UNCHANGED resetFrame

\* The context is done while the resetter waits: the loop exits
ResetCancelled ==
    /\ resetPc = "waiting"
    /\ ctxDone
    /\ resetPc' = "exited"
    /\ UNCHANGED << cache, cacheWindowStart, cacheMux, history, nextReset, resetSnap,
                    clearedCl, resetStats >>
    /\ UNCHANGED resetFrame

\* --------------------------------------------------------------------------
\* Specification of the service
\* --------------------------------------------------------------------------
NextMain ==
    \/ Tick
    \/ Stop
    \/ Start
    \/ ProducerEnqueue
    \/ ProducerCancelled
    \/ ProducerDone
    \/ BackfillWait
    \/ Handoff
    \/ LiveTick
    \/ LiveContinue
    \/ LiveStop
    \/ ResetFire
    \/ ResetAppend
    \/ ResetClear
    \/ ResetCancelled
    \/ \E w \in Workers : WorkerTake(w) \/ WorkerCancelled(w) \/ WorkerClosed(w)
    \/ \E p \in Procs : FetchFail(p) \/ BackoffElapsed(p)
                          \/ BackoffCancelled(p) \/ MergeLock(p) \/ MergeStep(p)

\* --------------------------------------------------------------------------
\* Accumulation of a set of records in two orders
\* --------------------------------------------------------------------------
\* Longest list of records accumulated
MaxRecords == 3

\* A record whose uint64 fields all hold n and whose wei bytes are w
MakeIncome(n, w) ==
    [f \in DOMAIN ZeroIncome |-> IF f = "TxFeeRewardWei" THEN w ELSE n]

\* Wei values as the fetcher stores them (big.Int.Bytes: no leading zero); empty is zero
WeiValues == { <<>>, <<255>>, <<1, 0>> }

IncomeRecords == { MakeIncome(n, w) : n \in {1, 2}, w \in WeiValues }
AccIdle ==
    /\ accRecs = <<>>
    /\ accUsedA = {}
    /\ accUsedB = {}
    /\ accA = EmptyCache
    /\ accB = EmptyCache

AccStart ==
    /\ accRecs \in UNION { [1..n -> IncomeRecords] : n \in 1..MaxRecords }
    /\ accUsedA = {}
    /\ accUsedB = {}
    /\ accA = EmptyCache
    /\ accB = EmptyCache

\* Accumulate one not yet used record into the first cache
AccumulateA ==
    /\ \E i \in (1..Len(accRecs)) \ accUsedA :
          /\ accA' = accumulateRewards(accA, 1, accRecs[i])
          /\ accUsedA' = accUsedA \cup {i}
    /\ UNCHANGED << accRecs, accUsedB, accB >>
    /\ UNCHANGED accOnly

\* Accumulate one not yet used record into the second cache
AccumulateB ==
    /\ \E i \in (1..Len(accRecs)) \ accUsedB :
          /\ accB' = accumulateRewards(accB, 1, accRecs[i])
          /\ accUsedB' = accUsedB \cup {i}
    /\ UNCHANGED << accRecs, accUsedA, accA >>
    /\ UNCHANGED accOnly

NextAcc == AccumulateA \/ AccumulateB

\* --------------------------------------------------------------------------
\* The retry loop of one epoch under any accepted retry configuration
\* --------------------------------------------------------------------------
\* Largest EpochProcessMaxRetries tried
MaxRetriesTried == 6

\* Retry policies the environment bindings accept (all values > 0), the
\* defaults among them
RetryConfigs ==
    { [EpochProcessMaxRetries |-> n, EpochProcessBaseBackoff |-> b.base,
       EpochProcessMaxBackoff |-> b.cap] :
        n \in 1..MaxRetriesTried,
        b \in { [base |-> DefaultConfig.EpochProcessBaseBackoff,
                 cap  |-> DefaultConfig.EpochProcessMaxBackoff],
                [base |-> 20, cap |-> 30],
                [base |-> 40, cap |-> 30] } }

RetryIdle ==
    /\ rCfg = DefaultConfig
    /\ rPc = "idle"
    /\ rAttempt = 0
    /\ rBackoff = 0
    /\ rWaits = <<>>

\* The wait after a failure: the current backoff, never above the cap
backoffWait(backoff, maxBackoff) == Min(backoff, maxBackoff)

\* The backoff for the failure after this one: doubled, never above the cap
nextBackoff(backoff, maxBackoff) == Min(2 * backoff, maxBackoff)

RetryStart ==
    /\ rCfg \in RetryConfigs
    /\ rPc = "attempt"
    /\ rAttempt = 1
    /\ rBackoff = rCfg.EpochProcessBaseBackoff
    /\ rWaits = <<>>

\* The attempt fails: wait and retry while the budget lasts, else skip the epoch
RetryAttemptFails ==
    /\ rPc = "attempt"
    /\ IF retryBudgetLeft(rAttempt, rCfg.EpochProcessMaxRetries)
       THEN /\ rPc' = "wait"
            /\ rWaits' = Append(rWaits, backoffWait(rBackoff, rCfg.EpochProcessMaxBackoff))
            /\ rBackoff' = nextBackoff(rBackoff, rCfg.EpochProcessMaxBackoff)
       ELSE /\ rPc' = "skipped"
            /\ UNCHANGED << rWaits, rBackoff >>
    /\ UNCHANGED << rCfg, rAttempt >>
    /\ UNCHANGED retryOnly

\* The attempt succeeds: the loop returns
RetryAttemptSucceeds ==
    /\ rPc = "attempt"
    /\ rPc' = "succeeded"
    /\ UNCHANGED << rCfg, rAttempt, rBackoff, rWaits >>
    /\ UNCHANGED retryOnly

\* The wait elapsed: next attempt
RetryWaitElapsed ==
    /\ rPc = "wait"
    /\ rPc' = "attempt"
    /\ rAttempt' = rAttempt + 1
    /\ UNCHANGED << rCfg, rBackoff, rWaits >>
    /\ UNCHANGED retryOnly

NextRetry == RetryAttemptFails \/ RetryAttemptSucceeds \/ RetryWaitElapsed

\* --------------------------------------------------------------------------
\* Specifications
\* --------------------------------------------------------------------------
\* --------------------------------------------------------------------------
\* Network snapshot of a cache put together entry by entry
\* --------------------------------------------------------------------------
\* Number of validators the cache may hold
MaxSnapValidators == 3

\* Entries a validator may hold: the test's (CL 64 gwei, EL 5 gwei), a half
\* gwei of EL with a CL penalty, one and a half gwei of EL with rewards equal
\* to penalties, an entry without wei, and penalties only
SnapEntries ==
    << [ZeroIncome EXCEPT !.AttestationSourceReward = 64,
                          !.TxFeeRewardWei = << 1, 42, 5, 242, 0 >>],
       [ZeroIncome EXCEPT !.AttestationHeadReward = 10,
                          !.AttestationTargetPenalty = 3,
                          !.TxFeeRewardWei = << 29, 205, 101, 0 >>],
       [ZeroIncome EXCEPT !.SyncCommitteeReward = 7,
                          !.SlashingPenalty = 7,
                          !.TxFeeRewardWei = << 89, 104, 47, 0 >>],
       ZeroIncome,
       [ZeroIncome EXCEPT !.FinalityDelayPenalty = 5,
                          !.TxFeeRewardWei = << 29, 205, 101, 0 >>] >>

\* The cache the picks stand for
SnapCache(pick) == [v \in DOMAIN pick |-> SnapEntries[pick[v]]]

SnapIdle ==
    /\ snapPick = << >>
    /\ snapOut = << >>

SnapStart ==
    /\ snapPick \in { (1 :> i) : i \in 1..Len(SnapEntries) }
    /\ snapOut = << >>

\* svc.cache[v] = entry; a snapshot taken before does not describe this cache
SnapPut ==
    /\ \E v \in 1..MaxSnapValidators, i \in 1..Len(SnapEntries) :
          /\ v \notin DOMAIN snapPick
          /\ snapPick' = snapPick @@ (v :> i)
    /\ snapOut' = << >>
    /\ UNCHANGED snapOnly

\* svc.TotalNetworkRewards()
SnapTake ==
    /\ snapOut' = << TotalNetworkRewards(SnapCache(snapPick), StartTime - 2 * SecondsPerHour,
                                         TimeToEpoch(StartTime)) >>
    /\ UNCHANGED snapPick
    /\ UNCHANGED snapOnly

NextSnap ==
    \/ SnapPut
    \/ SnapTake

\* --------------------------------------------------------------------------
\* Service.startEpoch as a function of configuration, time and window start
\* --------------------------------------------------------------------------
\* StartEpoch unset or set; no lookback, one epoch, six hours (the test's)
SeConfigs ==
    [StartEpoch : {0, 5, 92},
     BackfillLookback : {0, SECONDS_PER_EPOCH, 6 * SecondsPerHour}]

\* Times of the call: the test's genesis + 100 epochs, the last second of that
\* epoch, one hour after genesis, and the service's start time
SeTimes ==
    { DefaultGenesisTimestamp + 100 * SECONDS_PER_EPOCH,
      DefaultGenesisTimestamp + 101 * SECONDS_PER_EPOCH - 1,
      DefaultGenesisTimestamp + SecondsPerHour,
      StartTime }

\* Window starts: the test's genesis + 20 epochs, inside that epoch, before genesis
SeWindows ==
    { DefaultGenesisTimestamp + 20 * SECONDS_PER_EPOCH,
      DefaultGenesisTimestamp + 20 * SECONDS_PER_EPOCH + 100,
      DefaultGenesisTimestamp - 60 }

SeIdle ==
    /\ seIn = << >>
    /\ seOut = NoEpoch

SeStart ==
    /\ seIn \in [cfg : SeConfigs, now : SeTimes, windowStart : SeWindows]
    /\ seOut = NoEpoch

\* svc.startEpoch(now)
StartEpochCall ==
    /\ seOut = NoEpoch
    /\ seOut' = startEpoch(seIn.cfg, seIn.now, seIn.windowStart)
    /\ UNCHANGED seIn
    /\ UNCHANGED seOnly

NextSe == StartEpochCall

\* --------------------------------------------------------------------------
\* Epoch clock: genesis override and conversion of an epoch to a time and back
\* --------------------------------------------------------------------------
\* Largest epoch converted
MaxEpochTried == 40

\* The genesis the clock test sets
TestGenesisTimestamp == 1800000000

RtIdle ==
    /\ genesisTimestamp = DefaultGenesisTimestamp
    /\ rtEpoch = NoEpoch
    /\ rtTime = NoEpoch
    /\ rtBack = << >>

\* init() stores the default genesis
RtStart ==
    /\ genesisTimestamp = DefaultGenesisTimestamp
    /\ rtEpoch \in 0..MaxEpochTried
    /\ rtTime = NoEpoch
    /\ rtBack = << >>

\* SetGenesisTimestamp(ts): stored only when ts > 0
SetGenesisTimestamp ==
    /\ rtTime = NoEpoch
    /\ \E ts \in {0 - 5, 0, DefaultGenesisTimestamp, TestGenesisTimestamp} :
          genesisTimestamp' = IF ts > 0 THEN ts ELSE genesisTimestamp
    /\ genesisTimestamp' # genesisTimestamp
    /\ UNCHANGED << rtEpoch, rtTime, rtBack >>
    /\ UNCHANGED rtOnly

\* EpochToTime(rtEpoch)
EpochToTimeCall ==
    /\ rtTime = NoEpoch
    /\ rtTime' = EpochToTimeAt(genesisTimestamp, rtEpoch)
    /\ UNCHANGED << genesisTimestamp, rtEpoch, rtBack >>
    /\ UNCHANGED rtOnly

\* TimeToEpoch of the time computed and of the second before it
TimeToEpochCall ==
    /\ rtTime # NoEpoch
    /\ rtBack = << >>
    /\ rtBack' = << TimeToEpochAt(genesisTimestamp, rtTime),
                    TimeToEpochAt(genesisTimestamp, rtTime - 1) >>
    /\ UNCHANGED << genesisTimestamp, rtEpoch, rtTime >>
    /\ UNCHANGED rtOnly

NextRt ==
    \/ SetGenesisTimestamp
    \/ EpochToTimeCall
    \/ TimeToEpochCall

\* --------------------------------------------------------------------------
\* Epochs in the metadata store (dora): uint64 kept in a signed BIGINT column
\* --------------------------------------------------------------------------
\* A 64-bit word (uint64, or the bit pattern of an int64 in two's complement)
\* is four limbs of 16 bits, the most significant first
LimbBase == 2 ^ 16
Limbs == 1..4

RECURSIVE CarryInto(_, _, _)
\* The carry out of limb i of a + b
CarryInto(a, b, i) ==
    IF i > 4 THEN 0 ELSE (a[i] + b[i] + CarryInto(a, b, i + 1)) \div LimbBase

\* a + b modulo 2^64
AddU64(a, b) == [i \in Limbs |-> (a[i] + b[i] + CarryInto(a, b, i + 1)) % LimbBase]

\* a - b modulo 2^64: a + ~b + 1
SubU64(a, b) ==
    AddU64(AddU64(a, [i \in Limbs |-> LimbBase - 1 - b[i]]), << 0, 0, 0, 1 >>)

\* a >= b as unsigned words
GeU64(a, b) ==
    LET differ == { i \in Limbs : a[i] # b[i] }
    IN  differ = {} \/ a[CHOOSE i \in differ : \A j \in differ : i <= j]
                          > b[CHOOSE i \in differ : \A j \in differ : i <= j]

\* epochShift = uint64(1) << 63, and the bit pattern of epochOffset = -1 << 63
epochShift == << LimbBase \div 2, 0, 0, 0 >>
epochOffset == << LimbBase \div 2, 0, 0, 0 >>

\* Bug variant of ConvertInt64ToUint64: the shift is not added back
ConvertInt64ToUint64_NoShift(i) == i

\* ConvertInt64ToUint64: uint64(i) + epochShift
ConvertInt64ToUint64(i) == AddU64(i, epochShift)

\* convertUint64EpochToStorage: int64(epoch - epochShift) from 2^63 on, else
\* int64(epoch) + epochOffset
convertUint64EpochToStorage(epoch) ==
    IF GeU64(epoch, epochShift) THEN SubU64(epoch, epochShift)
    ELSE AddU64(epoch, epochOffset)

\* Epochs converted: 0, 1, 12345, 2^63 - 1, 2^63, 2^63 + 1, 2^64 - 1 and
\* others around the limb boundaries
EpochWords ==
    { << top, hi, lo, low >> :
        top \in {0, 1, LimbBase \div 2 - 1, LimbBase \div 2, LimbBase \div 2 + 1, LimbBase - 1},
        hi \in {0, LimbBase - 1},
        lo \in {0, LimbBase - 1},
        low \in {0, 1, 12345, LimbBase - 1} }

CvIdle ==
    /\ cvEpoch = << >>
    /\ cvStored = << >>
    /\ cvBack = << >>

CvStart ==
    /\ cvEpoch \in EpochWords
    /\ cvStored = << >>
    /\ cvBack = << >>

\* stored := convertUint64EpochToStorage(epoch)
StoreEpoch ==
    /\ cvStored = << >>
    /\ cvStored' = convertUint64EpochToStorage(cvEpoch)
    /\ UNCHANGED << cvEpoch, cvBack >>
    /\ UNCHANGED cvOnly

\* restored := ConvertInt64ToUint64(stored)
RestoreEpoch ==
    /\ cvStored # << >>
    /\ cvBack = << >>
    /\ cvBack' = ConvertInt64ToUint64(cvStored)
    /\ UNCHANGED << cvEpoch, cvStored >>
    /\ UNCHANGED cvOnly

NextCv ==
    \/ StoreEpoch
    \/ RestoreEpoch

\* --------------------------------------------------------------------------
\* Address normalisation (dora.NormalizeAddress) and the address-rewards lookup
\* --------------------------------------------------------------------------
WhiteSpace == { " ", "\t", "\n", "\r" }
UpperChars == << "A", "B", "C", "D", "E", "F", "G", "H", "I", "J", "K", "L", "M", "N", "O", "P", "Q", "R", "S", "T", "U", "V", "W", "X", "Y", "Z" >>
LowerChars == << "a", "b", "c", "d", "e", "f", "g", "h", "i", "j", "k", "l", "m", "n", "o", "p", "q", "r", "s", "t", "u", "v", "w", "x", "y", "z" >>
HexChars == { "0", "1", "2", "3", "4", "5", "6", "7", "8", "9",
              "a", "b", "c", "d", "e", "f", "A", "B", "C", "D", "E", "F" }

\* strings.TrimSpace
RECURSIVE TrimLeft(_)
TrimLeft(str) ==
    IF str # << >> /\ Head(str) \in WhiteSpace THEN TrimLeft(Tail(str)) ELSE str

RECURSIVE TrimRight(_)
TrimRight(str) ==
    IF str # << >> /\ str[Len(str)] \in WhiteSpace
    THEN TrimRight(SubSeq(str, 1, Len(str) - 1))
    ELSE str

TrimSpace(str) == TrimRight(TrimLeft(str))

\* strings.HasPrefix
HasPrefix(str, prefix) ==
    Len(str) >= Len(prefix) /\ SubSeq(str, 1, Len(prefix)) = prefix

\* strings.ToLower
ToLowerChar(c) ==
    IF \E i \in 1..Len(UpperChars) : UpperChars[i] = c
    THEN LowerChars[CHOOSE i \in 1..Len(UpperChars) : UpperChars[i] = c]
    ELSE c

ToLower(str) == [i \in 1..Len(str) |-> ToLowerChar(str[i])]

\* hex.DecodeString returns no error: an even number of hex digits
HexDecodes(str) ==
    Len(str) % 2 = 0 /\ \A i \in 1..Len(str) : str[i] \in HexChars

\* str[n:]
SliceFrom(str, n) == SubSeq(str, n + 1, Len(str))

\* Results of NormalizeAddress: the address, or ErrInvalidAddress
InvalidAddress == [ok |-> FALSE, value |-> << >>]
Normalized(str) == [ok |-> TRUE, value |-> str]

\* Bug variant of NormalizeAddress: the digits are not decoded
NormalizeAddress_NoHexCheck(address) ==
    LET trimmed == TrimSpace(address)
        digits  == IF HasPrefix(trimmed, << "0", "x" >>) \/ HasPrefix(trimmed, << "0", "X" >>)
                   THEN SliceFrom(trimmed, 2)
                   ELSE trimmed
    IN  IF trimmed = << >> THEN InvalidAddress
        ELSE IF Len(digits) # 40 THEN InvalidAddress
        ELSE Normalized(<< "0", "x" >> \o ToLower(digits))

\* NormalizeAddress: trim, reject the empty string, strip one 0x or 0X,
\* require 40 characters that decode as hex, return 0x + lower case
NormalizeAddress(address) ==
    LET trimmed == TrimSpace(address)
        digits  == IF HasPrefix(trimmed, << "0", "x" >>) \/ HasPrefix(trimmed, << "0", "X" >>)
                   THEN SliceFrom(trimmed, 2)
                   ELSE trimmed
    IN  IF trimmed = << >> THEN InvalidAddress
        ELSE IF Len(digits) # 40 THEN InvalidAddress
        ELSE IF ~HexDecodes(digits) THEN InvalidAddress
        ELSE Normalized(<< "0", "x" >> \o ToLower(digits))

\* The pattern repeated up to n characters
Repeat(pattern, n) == [i \in 1..n |-> pattern[((i - 1) % Len(pattern)) + 1]]

\* Inputs: white space, an optional prefix, a body, white space
AddrLeads == { << >>, << " " >>, << "\t", " " >> }
AddrPrefixes == { << >>, << "0", "x" >>, << "0", "X" >> }
AddrTrails == { << >>, << " " >>, << "\n" >> }

UpperDigits == << "A", "B", "C", "D", "E", "F" >>
MixedDigits == << "a", "B", "3", "d", "E", "9", "f", "0", "C" >>

\* Withdrawal credentials: a type byte, 11 zero bytes, then 20 bytes of address
Credentials(type) == type \o Repeat(<< "0" >>, 22) \o Repeat(MixedDigits, 40)

\* Bodies: 40 hex digits (the test's upper case, mixed case), 40 characters
\* with a non-hex one, with a space inside, 0x and 38 digits, lengths 0, 4,
\* 39 and 41, and 64 digits with the type bytes 01, 02 and 03
AddrBodies ==
    { Repeat(UpperDigits, 40),
      Repeat(MixedDigits, 40),
      Repeat(<< "z" >>, 40),
      Repeat(UpperDigits, 20) \o << "g" >> \o Repeat(MixedDigits, 19),
      Repeat(UpperDigits, 20) \o << " " >> \o Repeat(MixedDigits, 19),
      << "0", "x" >> \o Repeat(MixedDigits, 38),
      << >>,
      << "1", "2", "3", "4" >>,
      Repeat(MixedDigits, 39),
      Repeat(MixedDigits, 41),
      Credentials(<< "0", "1" >>),
      Credentials(<< "0", "2" >>),
      Credentials(<< "0", "3" >>) }

NotCalled == [ok |-> FALSE, value |-> << "-" >>]

NaIdle ==
    /\ naInput = << >>
    /\ naOnce = NotCalled
    /\ naTwice = NotCalled
    /\ naLookup = NotCalled

NaStart ==
    /\ naInput \in { lead \o prefix \o body \o trail :
                        lead \in AddrLeads, prefix \in AddrPrefixes,
                        body \in AddrBodies, trail \in AddrTrails }
    /\ naOnce = NotCalled
    /\ naTwice = NotCalled
    /\ naLookup = NotCalled

\* addressRewardsHandler: withdrawal credentials (0x01 or 0x02, 66 characters
\* in all) are cut down to their last 20 bytes; the tests are on req.Address
\* as it was sent
withdrawalAddress(address) ==
    IF (HasPrefix(address, << "0", "x", "0", "1" >>)
          \/ HasPrefix(address, << "0", "x", "0", "2" >>)) /\ Len(address) = 66
    THEN ToLower(<< "0", "x" >> \o SliceFrom(address, 26))
    ELSE address

\* The address the lookup runs with: the handler rejects a blank address,
\* ValidatorDetailsByAddress normalises what the handler passes on
LookupAddress(address) ==
    IF TrimSpace(address) = << >> THEN InvalidAddress
    ELSE NormalizeAddress(withdrawalAddress(address))

\* POST /rewards/by-address with the input as address
AddressLookup ==
    /\ naLookup = NotCalled
    /\ naLookup' = LookupAddress(naInput)
    /\ UNCHANGED << naInput, naOnce, naTwice >>
    /\ UNCHANGED naOnly

\* NormalizeAddress(input)
NormalizeCall ==
    /\ naOnce = NotCalled
    /\ naOnce' = NormalizeAddress(naInput)
    /\ UNCHANGED << naInput, naTwice, naLookup >>
    /\ UNCHANGED naOnly

\* NormalizeAddress of the address returned
NormalizeAgain ==
    /\ naOnce.ok
    /\ naTwice = NotCalled
    /\ naTwice' = NormalizeAddress(naOnce.value)
    /\ UNCHANGED << naInput, naOnce, naLookup >>
    /\ UNCHANGED naOnly

NextNa ==
    \/ NormalizeCall
    \/ NormalizeAgain
    \/ AddressLookup

\* --------------------------------------------------------------------------
\* ORDER BY of the top-addresses queries (dora.OrderBy, dora.OrderDirection)
\* --------------------------------------------------------------------------
\* OrderBy: the sort fields the switch lets through, anything else is
\* replaced by total_deposit
OrderBy(sortBy) ==
    IF sortBy \in { "depositor_address", "withdrawal_address", "validators_total",
                    "slashed", "voluntary_exited", "active", "total_amount" }
    THEN sortBy
    ELSE "total_deposit"

\* OrderDirection: ASC for "asc" in any case, DESC otherwise
OrderDirection(order) ==
    IF ToLower(order) = << "a", "s", "c" >> THEN "ASC" ELSE "DESC"

\* Sort fields asked for: those of TestOrderHelpers and of the API
\* documentation, the one only the switch knows, and strings that are no field
SortFields ==
    { "depositor_address", "withdrawal_address", "validators_total", "slashed",
      "voluntary_exited", "active", "total_active_effective_balance",
      "total_deposit", "total_amount", "unknown", "",
      "Slashed", "active; DROP TABLE validators" }

\* Orders asked for
Orders ==
    { << "a", "s", "c" >>, << "A", "S", "C" >>, << "A", "s", "c" >>,
      << "a", "S", "c" >>, << "d", "e", "s", "c" >>, << "D", "E", "S", "C" >>,
      << >>, << "a", "s" >>, << "a", "s", "c", "e", "n", "d" >>,
      << " ", "a", "s", "c" >>, << "a", "s", "c", ";" >> }

NoTable == "none"
NoClause == << "-", "-" >>

ObIdle ==
    /\ obSortBy = ""
    /\ obOrder = << >>
    /\ obTable = NoTable
    /\ obOrderClause = NoClause

ObStart ==
    /\ obSortBy \in SortFields
    /\ obOrder \in Orders
    /\ obTable = NoTable
    /\ obOrderClause = NoClause

\* TopWithdrawalAddresses: ORDER BY %s %s of the query over validators
TopWithdrawalAddresses ==
    /\ obTable = NoTable
    /\ obTable' = "validators"
    /\ obOrderClause' = << OrderBy(obSortBy), OrderDirection(obOrder) >>
    /\ UNCHANGED << obSortBy, obOrder >>
    /\ UNCHANGED obOnly

\* TopDepositorAddresses: ORDER BY %s %s of the query over deposit_txs
TopDepositorAddresses ==
    /\ obTable = NoTable
    /\ obTable' = "deposit_txs"
    /\ obOrderClause' = << OrderBy(obSortBy), OrderDirection(obOrder) >>
    /\ UNCHANGED << obSortBy, obOrder >>
    /\ UNCHANGED obOnly

NextOb ==
    \/ TopWithdrawalAddresses
    \/ TopDepositorAddresses

\* --------------------------------------------------------------------------
\* The 31-day average APR (calculate31DayAverageAPR, removeOutliersIQR)
\* --------------------------------------------------------------------------
\* APR values are counted in half percents (20 is 10.0 %, 21 is 10.5 %); an
\* average is the exact fraction << numerator, denominator >> in lowest terms
maxHistoryDays == 31

\* a snapshot pointer: nil, or the ProjectAprPercent of the snapshot
NilSnapshot == << >>
SnapshotOf(apr) == << apr >>
NotCalculated == << 0, 0 >>

RECURSIVE SumValues(_)
SumValues(values) ==
    IF values = << >> THEN 0 ELSE Head(values) + SumValues(Tail(values))

\* sort.Float64s
RECURSIVE InsertSorted(_, _)
InsertSorted(v, sorted) ==
    IF sorted = << >> THEN << v >>
    ELSE IF v <= Head(sorted) THEN << v >> \o sorted
    ELSE << Head(sorted) >> \o InsertSorted(v, Tail(sorted))

RECURSIVE SortFloat64s(_)
SortFloat64s(values) ==
    IF values = << >> THEN << >>
    ELSE InsertSorted(Head(values), SortFloat64s(Tail(values)))

\* the filter loop of removeOutliersIQR; the bounds q1 - 1.5*iqr and
\* q3 + 1.5*iqr are compared doubled
RECURSIVE FilterWithin(_, _, _)
FilterWithin(values, lowerBound2, upperBound2) ==
    IF values = << >> THEN << >>
    ELSE (IF 2 * Head(values) >= lowerBound2 /\ 2 * Head(values) <= upperBound2
          THEN << Head(values) >> ELSE << >>)
         \o FilterWithin(Tail(values), lowerBound2, upperBound2)

removeOutliersIQR_KeepAll(values) == values

removeOutliersIQR(values) ==
    IF Len(values) < 4 THEN values
    ELSE LET sorted == SortFloat64s(values)
             n == Len(sorted)
             q1 == sorted[(n \div 4) + 1]
             q3 == sorted[((3 * n) \div 4) + 1]
             iqr == q3 - q1
         IN  FilterWithin(values, 2 * q1 - 3 * iqr, 2 * q3 + 3 * iqr)

\* the history loop of calculate31DayAverageAPR, from index i (1-based)
RECURSIVE HistoryAprValues(_, _)
HistoryAprValues(snapshots, i) ==
    IF i > Len(snapshots) THEN << >>
    ELSE (IF snapshots[i] > 0 THEN << snapshots[i] >> ELSE << >>)
         \o HistoryAprValues(snapshots, i + 1)

AverageOf(aprValues) ==
    IF Len(aprValues) = 0 THEN << 0, 1 >>
    ELSE IF Len(aprValues) = 1 THEN << aprValues[1], 1 >>
    ELSE LET kept == removeOutliersIQR(aprValues)
             filtered == IF Len(kept) = 0 THEN aprValues ELSE kept
         IN  Fraction(SumValues(filtered), Len(filtered))

calculate31DayAverageAPR_WholeHistory(snapshots, currentSnapshot) ==
    AverageOf(HistoryAprValues(snapshots, 1)
              \o (IF currentSnapshot # NilSnapshot /\ currentSnapshot[1] > 0
                  THEN << currentSnapshot[1] >> ELSE << >>))

calculate31DayAverageAPR(snapshots, currentSnapshot) ==
    LET startIdx == IF Len(snapshots) > maxHistoryDays
                    THEN Len(snapshots) - maxHistoryDays ELSE 0
    IN  AverageOf(HistoryAprValues(snapshots, startIdx + 1)
                  \o (IF currentSnapshot # NilSnapshot /\ currentSnapshot[1] > 0
                      THEN << currentSnapshot[1] >> ELSE << >>))

\* Histories: the entries the window may leave out, then the recent ones
Ramp(from, to) == [i \in 1..(to - from + 1) |-> 2 * (from + i - 1)]

OlderEntries ==
    { << >>, Ramp(1, 9), << 2000 >>, << 0, 0 - 8 >>, << 1, 2000, 0, 20 >> }

RecentEntries ==
    { << >>, << 20 >>, << 0 >>, << 0 - 4, 0 >>, << 20, 22 >>,
      << 20, 21, 22, 23 >>, << 20, 0, 21, 22, 23, 200 >>,
      Ramp(10, 40),
      [i \in 1..31 |-> IF i = 5 THEN 0 ELSE 20 + (i % 3)],
      [i \in 1..31 |-> IF i = 31 THEN 400 ELSE 20] }

CurrentSnapshots ==
    { NilSnapshot } \cup { SnapshotOf(apr) : apr \in { 0, 0 - 6, 20, 24, 200 } }

AprIdle ==
    /\ aprHistory = << >>
    /\ aprCurrent = NilSnapshot
    /\ aprAvg = NotCalculated
    /\ aprAvgRecent = NotCalculated

\* entries older than the window are there only when the window is full
AprStart ==
    /\ \E older \in OlderEntries, recent \in RecentEntries :
          /\ older # << >> => Len(recent) = maxHistoryDays
          /\ aprHistory = older \o recent
    /\ aprCurrent \in CurrentSnapshots
    /\ aprAvg = NotCalculated
    /\ aprAvgRecent = NotCalculated

LastEntries(snapshots, n) ==
    SubSeq(snapshots, Max(1, Len(snapshots) - n + 1), Len(snapshots))

\* calculate31DayAverageAPR(history, currentSnapshot)
AverageAPR ==
    /\ aprAvg = NotCalculated
    /\ aprAvg' = calculate31DayAverageAPR(aprHistory, aprCurrent)
    /\ UNCHANGED << aprHistory, aprCurrent, aprAvgRecent >>
    /\ UNCHANGED aprOnly

\* the same call with the history cut to its last 31 entries
AverageAPRRecent ==
    /\ aprAvgRecent = NotCalculated
    /\ aprAvgRecent' = calculate31DayAverageAPR(LastEntries(aprHistory, maxHistoryDays),
                                                aprCurrent)
    /\ UNCHANGED << aprHistory, aprCurrent, aprAvg >>
    /\ UNCHANGED aprOnly

NextApr ==
    \/ AverageAPR
    \/ AverageAPRRecent

\* Values handed to removeOutliersIQR: every sequence of up to MaxIqrLen
\* values of IqrValueSet, and the longer ones of the tests
MaxIqrLen == 4
IqrValueSet == { 1, 20, 21, 22, 23, 24, 200 }

IqrInputs ==
    UNION { [1..n -> IqrValueSet] : n \in 0..MaxIqrLen }
      \cup { << 20, 21, 22, 23, 24 >>, << 20, 21, 22, 23, 200 >>,
             << 1, 20, 21, 22, 23 >>, << 1, 20, 21, 22, 23, 200 >>,
             << 20, 21, 22, 23, 200, 200 >>, << 200, 20, 21, 22, 23, 200 >> }

NotFiltered == << 0 - 1 >>

IqrIdle ==
    /\ iqrValues = << >>
    /\ iqrFiltered = NotFiltered
    /\ iqrAvg = NotCalculated

IqrStart ==
    /\ iqrValues \in IqrInputs
    /\ iqrFiltered = NotFiltered
    /\ iqrAvg = NotCalculated

\* removeOutliersIQR(values)
RemoveOutliers ==
    /\ iqrFiltered = NotFiltered
    /\ iqrFiltered' = removeOutliersIQR(iqrValues)
    /\ UNCHANGED << iqrValues, iqrAvg >>
    /\ UNCHANGED iqrOnly

\* calculate31DayAverageAPR with the last value as the current snapshot and
\* the values before it as the history
AverageWithSnapshot ==
    /\ iqrValues # << >>
    /\ iqrAvg = NotCalculated
    /\ iqrAvg' = calculate31DayAverageAPR(SubSeq(iqrValues, 1, Len(iqrValues) - 1),
                                          SnapshotOf(iqrValues[Len(iqrValues)]))
    /\ UNCHANGED << iqrValues, iqrFiltered >>
    /\ UNCHANGED iqrOnly

NextIqr ==
    \/ RemoveOutliers
    \/ AverageWithSnapshot

\* --------------------------------------------------------------------------
\* One epoch fetch (GetRewardsForEpoch) inside processEpoch
\* --------------------------------------------------------------------------
\* The epoch fetched and the length of the proposer-assignments list
FetchEpoch == 3
SlotsInEpoch == 2
FetchSlots == (FetchEpoch * SlotsInEpoch)..(FetchEpoch * SlotsInEpoch + SlotsInEpoch - 1)
FirstSlot == FetchEpoch * SlotsInEpoch
SecondSlot == FirstSlot + 1

\* Upstream responses.  Every response is a record with a status; "ok" ones
\* carry data.  The base responses are those of an epoch without incident.
Assigned(slot, validator) == [Slot |-> slot, ValidatorIndex |-> validator]
SyncRow(validator, reward) == [ValidatorIndex |-> validator, Reward |-> reward]
AttRow(validator, head, source, target, delay) ==
    [ValidatorIndex |-> validator, Head |-> head, Source |-> source,
     Target |-> target, InclusionDelay |-> delay]
BlockData(proposer) ==
    [ProposerIndex |-> proposer, Attestations |-> 4, AttesterSlashings |-> 1,
     ProposerSlashings |-> 1, SyncAggregate |-> 2]

AssignmentResponses ==
    << [status |-> "ok", data |-> << Assigned(FirstSlot, 1), Assigned(SecondSlot, 2) >>],
       [status |-> "error", data |-> << >>],
       [status |-> "ok", data |-> << Assigned(FirstSlot, 1), Assigned(SecondSlot, 1) >>],
       [status |-> "ok", data |-> << Assigned(FirstSlot, 1), Assigned(FirstSlot, 2) >>] >>

\* execution block number and EL reward of a slot
ExecResponses ==
    << [exec |-> "ok", el |-> "ok"],
       [exec |-> "notfound", el |-> "ok"],
       [exec |-> "premerge", el |-> "ok"],
       [exec |-> "error", el |-> "ok"],
       [exec |-> "ok", el |-> "error"] >>

SyncResponses ==
    << [status |-> "ok", data |-> << SyncRow(1, 3) >>],
       [status |-> "ok", data |-> << SyncRow(1, 0 - 3) >>],
       [status |-> "ok", data |-> << SyncRow(2, 0), SyncRow(1, 5) >>],
       [status |-> "presync", data |-> << >>],
       [status |-> "error", data |-> << >>] >>

BlockResponses(slot) ==
    << [status |-> "ok", data |-> BlockData(slot - FirstSlot + 1)],
       [status |-> "error", data |-> BlockData(0)] >>

AttestationResponses ==
    << [status |-> "ok", data |-> << AttRow(1, 2, 1, 0 - 1, 0), AttRow(2, 0, 0 - 1, 2, 0 - 1) >>],
       [status |-> "error", data |-> << >>],
       [status |-> "ok", data |-> << AttRow(1, 2, 1, 0 - 1, 0), AttRow(2, 0 - 1, 1, 1, 0) >>],
       [status |-> "ok", data |-> << AttRow(1, 2, 1, 0 - 1, 1), AttRow(2, 0, 1, 1, 0) >>],
       [status |-> "ok", data |-> << AttRow(1, 2, 0, 3, 0) >>] >>

\* EL tx-fee reward of the block of a slot, as big.Int.Bytes()
ElRewardWei(slot) == IF slot = FirstSlot THEN << 1, 0 >> ELSE << 2 >>

\* The responses of an attempt: which response each call gets (1 is the base
\* response); at most MaxDeviations calls get another one
MaxDeviations == 2

Choices ==
    [ assign : 1..Len(AssignmentResponses),
      att    : 1..Len(AttestationResponses),
      exec   : [FetchSlots -> 1..Len(ExecResponses)],
      sync   : [FetchSlots -> 1..Len(SyncResponses)],
      block  : [FetchSlots -> 1..Len(BlockResponses(FirstSlot))] ]

Deviations(c) ==
    (IF c.assign # 1 THEN 1 ELSE 0) + (IF c.att # 1 THEN 1 ELSE 0)
    + Cardinality({ s \in FetchSlots : c.exec[s] # 1 })
    + Cardinality({ s \in FetchSlots : c.sync[s] # 1 })
    + Cardinality({ s \in FetchSlots : c.block[s] # 1 })

Responses(c) ==
    [ assign |-> AssignmentResponses[c.assign],
      att    |-> AttestationResponses[c.att],
      exec   |-> [s \in FetchSlots |-> ExecResponses[c.exec[s]]],
      sync   |-> [s \in FetchSlots |-> SyncResponses[c.sync[s]]],
      block  |-> [s \in FetchSlots |-> BlockResponses(s)[c.block[s]]] ]

\* Tasks of the fetch: the attestation task, and per slot the slot task and
\* its three sub-tasks
AttTask == << "att", FetchEpoch >>
FetchTasks ==
    { AttTask } \cup { << kind, s >> : kind \in { "slot", "exec", "sync", "block" },
                                       s \in FetchSlots }

\* slotsToProposerIndex: the last assignment of a slot wins
HasProposer(in, slot) ==
    \E i \in DOMAIN in.assign.data : in.assign.data[i].Slot = slot

ProposerOf(in, slot) ==
    LET last == CHOOSE i \in DOMAIN in.assign.data :
                    /\ in.assign.data[i].Slot = slot
                    /\ \A j \in DOMAIN in.assign.data :
                          in.assign.data[j].Slot = slot => j <= i
    IN  in.assign.data[last].ValidatorIndex

\* if rewards[v] == nil { rewards[v] = &types.ValidatorEpochIncome{} }
EnsureEntry(m, v) == IF v \in DOMAIN m THEN m ELSE m @@ (v :> ZeroIncome)

\* Bug variant of ExecOutcome: a block that is not found is not counted
ExecOutcome_MissedNotCounted(m, in, slot) ==
    LET proposer == ProposerOf(in, slot)
    IN  IF in.exec[slot].exec = "notfound" THEN << m, FALSE >>
        ELSE IF in.exec[slot].exec = "premerge" THEN << m, FALSE >>
        ELSE IF in.exec[slot].exec = "error" THEN << m, TRUE >>
        ELSE IF in.exec[slot].el = "error" THEN << m, TRUE >>
        ELSE << [m EXCEPT ![proposer].TxFeeRewardWei = ElRewardWei(slot)], FALSE >>

\* EL path after the entry is ensured: the new map and whether the
\* sub-task returned an error
ExecOutcome(m, in, slot) ==
    LET proposer == ProposerOf(in, slot)
    IN  IF in.exec[slot].exec = "notfound"
        THEN << [m EXCEPT ![proposer].ProposalsMissed = @ + 1], FALSE >>
        ELSE IF in.exec[slot].exec = "premerge" THEN << m, FALSE >>
        ELSE IF in.exec[slot].exec = "error" THEN << m, TRUE >>
        ELSE IF in.exec[slot].el = "error" THEN << m, TRUE >>
        ELSE << [m EXCEPT ![proposer].TxFeeRewardWei = ElRewardWei(slot)], FALSE >>

\* Sync-committee path: the loop over the rows, under the lock
RECURSIVE SyncRows(_, _)
SyncRows(m, rows) ==
    IF rows = << >> THEN m
    ELSE LET sr == Head(rows)
             e  == EnsureEntry(m, sr.ValidatorIndex)
         IN  SyncRows(IF sr.Reward > 0
                      THEN [e EXCEPT ![sr.ValidatorIndex].SyncCommitteeReward = @ + sr.Reward]
                      ELSE [e EXCEPT ![sr.ValidatorIndex].SyncCommitteePenalty =
                                         @ + sr.Reward * (0 - 1)],
                      Tail(rows))

SyncOutcome(m, in, slot) ==
    IF in.sync[slot].status = "error" THEN << m, TRUE >>
    ELSE IF in.sync[slot].status = "presync" THEN << m, FALSE >>
    ELSE << SyncRows(m, in.sync[slot].data), FALSE >>

\* Block-rewards path
BlockOutcome(m, in, slot) ==
    IF in.block[slot].status = "error" THEN << m, TRUE >>
    ELSE LET d == in.block[slot].data
             e == EnsureEntry(m, d.ProposerIndex)
         IN  << [e EXCEPT
                   ![d.ProposerIndex].ProposerAttestationInclusionReward = @ + d.Attestations,
                   ![d.ProposerIndex].ProposerSlashingInclusionReward =
                        @ + d.AttesterSlashings + d.ProposerSlashings,
                   ![d.ProposerIndex].ProposerSyncInclusionReward = @ + d.SyncAggregate],
                FALSE >>

\* Bug variant of AttRows: a negative head and a positive inclusion delay are
\* passed over
RECURSIVE AttRows_AcceptsAnySign(_, _)
AttRows_AcceptsAnySign(m, rows) ==
    IF rows = << >> THEN << m, FALSE >>
    ELSE LET ar == Head(rows)
             v  == ar.ValidatorIndex
             e  == EnsureEntry(m, v)
             h  == IF ar.Head >= 0 THEN [e EXCEPT ![v].AttestationHeadReward = ar.Head] ELSE e
             s  == IF ar.Source > 0
                   THEN [h EXCEPT ![v].AttestationSourceReward = ar.Source]
                   ELSE [h EXCEPT ![v].AttestationSourcePenalty = ar.Source * (0 - 1)]
             t  == IF ar.Target > 0
                   THEN [s EXCEPT ![v].AttestationTargetReward = ar.Target]
                   ELSE [s EXCEPT ![v].AttestationTargetPenalty = ar.Target * (0 - 1)]
         IN  AttRows_AcceptsAnySign(
                 IF ar.InclusionDelay <= 0
                 THEN [t EXCEPT ![v].FinalityDelayPenalty = ar.InclusionDelay * (0 - 1)]
                 ELSE t,
                 Tail(rows))

\* Attestation task: the loop over TotalRewards, left at the first row with a
\* negative head or a positive inclusion delay
RECURSIVE AttRows(_, _)
AttRows(m, rows) ==
    IF rows = << >> THEN << m, FALSE >>
    ELSE LET ar == Head(rows)
             v  == ar.ValidatorIndex
             e  == EnsureEntry(m, v)
         IN  IF ar.Head < 0 THEN << e, TRUE >>
             ELSE LET h == [e EXCEPT ![v].AttestationHeadReward = ar.Head]
                      s == IF ar.Source > 0
                           THEN [h EXCEPT ![v].AttestationSourceReward = ar.Source]
                           ELSE [h EXCEPT ![v].AttestationSourcePenalty = ar.Source * (0 - 1)]
                      t == IF ar.Target > 0
                           THEN [s EXCEPT ![v].AttestationTargetReward = ar.Target]
                           ELSE [s EXCEPT ![v].AttestationTargetPenalty = ar.Target * (0 - 1)]
                  IN  IF ar.InclusionDelay <= 0
                      THEN AttRows([t EXCEPT ![v].FinalityDelayPenalty =
                                                 ar.InclusionDelay * (0 - 1)],
                                   Tail(rows))
                      ELSE << t, TRUE >>

AttOutcome(m, in) ==
    IF in.att.status = "error" THEN << m, TRUE >> ELSE AttRows(m, in.att.data)

\* processEpoch's merge loop: every record of the map is accumulated
RECURSIVE MergeAll(_, _, _)
MergeAll(c, m, S) ==
    IF S = {} THEN c
    ELSE LET v == CHOOSE x \in S : TRUE
         IN  MergeAll(accumulateRewards(c, v, m[v]), m, S \ {v})

\* The cache before the attempt: a window in progress
PriorCache ==
    (1 :> [ZeroIncome EXCEPT !.AttestationHeadReward = 7, !.TxFeeRewardWei = << 9 >>])
      @@ (5 :> [ZeroIncome EXCEPT !.SyncCommitteePenalty = 1])
PriorLatest == FetchEpoch - 1
PriorWindowStart == EpochToTime(0)

NoResult == [status |-> "none", rewards |-> EmptyCache]

GfIdle ==
    /\ gfIn = Responses([assign |-> 1, att |-> 1, exec |-> [s \in FetchSlots |-> 1],
                         sync |-> [s \in FetchSlots |-> 1],
                         block |-> [s \in FetchSlots |-> 1]])
    /\ gfPhase = "idle"
    /\ gfPc = [t \in FetchTasks |-> "absent"]
    /\ gfRewards = EmptyCache
    /\ gfResult = NoResult
    /\ gfCache = EmptyCache
    /\ gfLatest = 0
    /\ gfWindowStart = 0

GfStart ==
    /\ \E c \in Choices : Deviations(c) <= MaxDeviations /\ gfIn = Responses(c)
    /\ gfPhase = "start"
    /\ gfPc = [t \in FetchTasks |-> "absent"]
    /\ gfRewards = EmptyCache
    /\ gfResult = NoResult
    /\ gfCache = PriorCache
    /\ gfLatest = PriorLatest
    /\ gfWindowStart = PriorWindowStart

gfFrame == << gfOnly, gfIn, gfWindowStart >>

\* processEpoch calls GetRewardsForEpoch: the proposer-assignments call, then
\* one task per slot and the attestation task are started
FetchStart ==
    /\ gfPhase = "start"
    /\ IF gfIn.assign.status = "error"
       THEN /\ gfPhase' = "returned"
            /\ gfResult' = [status |-> "error", rewards |-> EmptyCache]
            /\ UNCHANGED gfPc
       ELSE /\ gfPhase' = "running"
            /\ gfPc' = [t \in FetchTasks |->
                          IF t = AttTask THEN "ready"
                          ELSE IF t[1] = "slot"
                               THEN (IF HasProposer(gfIn, t[2]) THEN "absent" ELSE "ready")
                               ELSE (IF HasProposer(gfIn, t[2]) THEN "ready" ELSE "absent")]
            /\ UNCHANGED gfResult
    /\ UNCHANGED << gfRewards, gfCache, gfLatest >>
    /\ UNCHANGED gfFrame

\* Slot task of a slot that has no assigned proposer: it returns an error
SlotWithoutProposer(slot) ==
    /\ gfPhase = "running"
    /\ gfPc[<< "slot", slot >>] = "ready"
    /\ gfPc' = [gfPc EXCEPT ![<< "slot", slot >>] = "failed"]
    /\ UNCHANGED << gfPhase, gfRewards, gfResult, gfCache, gfLatest >>
    /\ UNCHANGED gfFrame

\* EL path: the proposer's entry is made sure of, under the lock
ExecEnsure(slot) ==
    /\ gfPhase = "running"
    /\ gfPc[<< "exec", slot >>] = "ready"
    /\ gfRewards' = EnsureEntry(gfRewards, ProposerOf(gfIn, slot))
    /\ gfPc' = [gfPc EXCEPT ![<< "exec", slot >>] = "entry"]
    /\ UNCHANGED << gfPhase, gfResult, gfCache, gfLatest >>
    /\ UNCHANGED gfFrame

\* EL path: missed proposal, pre-merge, error, or the EL reward is stored
ExecFinish(slot) ==
    /\ gfPhase = "running"
    /\ gfPc[<< "exec", slot >>] = "entry"
    /\ LET out == ExecOutcome(gfRewards, gfIn, slot)
       IN  /\ gfRewards' = out[1]
           /\ gfPc' = [gfPc EXCEPT ![<< "exec", slot >>] = IF out[2] THEN "failed" ELSE "done"]
    /\ UNCHANGED << gfPhase, gfResult, gfCache, gfLatest >>
    /\ UNCHANGED gfFrame

\* Sync-committee path of a slot
SyncTask(slot) ==
    /\ gfPhase = "running"
    /\ gfPc[<< "sync", slot >>] = "ready"
    /\ LET out == SyncOutcome(gfRewards, gfIn, slot)
       IN  /\ gfRewards' = out[1]
           /\ gfPc' = [gfPc EXCEPT ![<< "sync", slot >>] = IF out[2] THEN "failed" ELSE "done"]
    /\ UNCHANGED << gfPhase, gfResult, gfCache, gfLatest >>
    /\ UNCHANGED gfFrame

\* Block-rewards path of a slot
BlockTask(slot) ==
    /\ gfPhase = "running"
    /\ gfPc[<< "block", slot >>] = "ready"
    /\ LET out == BlockOutcome(gfRewards, gfIn, slot)
       IN  /\ gfRewards' = out[1]
           /\ gfPc' = [gfPc EXCEPT ![<< "block", slot >>] = IF out[2] THEN "failed" ELSE "done"]
    /\ UNCHANGED << gfPhase, gfResult, gfCache, gfLatest >>
    /\ UNCHANGED gfFrame

\* The attestation task of the epoch
AttestationTask ==
    /\ gfPhase = "running"
    /\ gfPc[AttTask] = "ready"
    /\ LET out == AttOutcome(gfRewards, gfIn)
       IN  /\ gfRewards' = out[1]
           /\ gfPc' = [gfPc EXCEPT ![AttTask] = IF out[2] THEN "failed" ELSE "done"]
    /\ UNCHANGED << gfPhase, gfResult, gfCache, gfLatest >>
    /\ UNCHANGED gfFrame

\* Bug variant of FetchReturn: the map is merged whether or not a task failed
FetchReturn_MergesOnError ==
    /\ gfPhase = "running"
    /\ \A t \in FetchTasks : gfPc[t] \in { "absent", "done", "failed" }
    /\ gfPhase' = "returned"
    /\ gfResult' = IF \E t \in FetchTasks : gfPc[t] = "failed"
                   THEN [status |-> "error", rewards |-> EmptyCache]
                   ELSE [status |-> "ok", rewards |-> gfRewards]
    /\ gfCache' = MergeAll(gfCache, gfRewards, DOMAIN gfRewards)
    /\ gfLatest' = advanceLatestSyncEpoch(gfLatest, FetchEpoch)
    /\ UNCHANGED << gfPc, gfRewards >>
    /\ UNCHANGED gfFrame

\* g.Wait() returns once every task has returned; GetRewardsForEpoch returns
\* nil and the error if a task failed, the map otherwise; processEpoch
\* returns on an error and merges the map into the cache otherwise
FetchReturn ==
    /\ gfPhase = "running"
    /\ \A t \in FetchTasks : gfPc[t] \in { "absent", "done", "failed" }
    /\ gfPhase' = "returned"
    /\ IF \E t \in FetchTasks : gfPc[t] = "failed"
       THEN /\ gfResult' = [status |-> "error", rewards |-> EmptyCache]
            /\ UNCHANGED << gfCache, gfLatest >>
       ELSE /\ gfResult' = [status |-> "ok", rewards |-> gfRewards]
            /\ gfCache' = MergeAll(gfCache, gfRewards, DOMAIN gfRewards)
            /\ gfLatest' = advanceLatestSyncEpoch(gfLatest, FetchEpoch)
    /\ UNCHANGED << gfPc, gfRewards >>
    /\ UNCHANGED gfFrame

NextGf ==
    \/ FetchStart
    \/ \E slot \in FetchSlots : SlotWithoutProposer(slot)
    \/ \E slot \in FetchSlots : ExecEnsure(slot)
    \/ \E slot \in FetchSlots : ExecFinish(slot)
    \/ \E slot \in FetchSlots : SyncTask(slot)
    \/ \E slot \in FetchSlots : BlockTask(slot)
    \/ AttestationTask
    \/ FetchReturn

\* --------------------------------------------------------------------------
\* processEpoch, the window reset and the cache readers on a cache of pointers
\* --------------------------------------------------------------------------
\* First epoch processed and the number of epochs processed after one another
RdFirstEpoch == 90
MaxRdEpochs == 3
\* Number of window resets in a run
MaxRdResets == 1
RdEpochs == RdFirstEpoch..(RdFirstEpoch + MaxRdEpochs - 1)

\* The validator index lists a caller passes to GetRewards and GetTotalRewards
IndexLists == SUBSET Validators \ {{}}

\* The records the map's pointers lead to
Deref(c, heap) == [v \in DOMAIN c |-> heap[c[v]]]

\* Window start after the k-th reset: the resets are one day apart
WindowStartAfter(k) == EpochToTime(0) + k * SecondsPerDay

\* The cache as a reader under the read lock finds it
CacheView(c, heap, windowStart, latest) ==
    [cache |-> Deref(c, heap), windowStart |-> windowStart, latest |-> latest]

\* A signed big integer in limbs of 10^9: hi * 10^9 + lo with 0 <= lo < 10^9
\* elRewardsWei.SetBytes(income.TxFeeRewardWei)
WeiLimbs(weiBytes) ==
    LET d == DivBits(BitsOf(weiBytes), GweiDivisor, 0, 0) IN [hi |-> d[1], lo |-> d[2]]

\* new(big.Int).Mul(big.NewInt(clRewardsGwei), gweiToWei)
GweiToWeiLimbs(gwei) == [hi |-> gwei, lo |-> 0]

\* new(big.Int).Add(x, y)
AddLimbs(x, y) ==
    LET lo == x.lo + y.lo
    IN  [hi |-> x.hi + y.hi + (lo \div GweiDivisor), lo |-> lo % GweiDivisor]

\* big.Int.Quo by 10^9: the quotient truncated toward zero
QuoLimbs(x) == IF x.hi < 0 /\ x.lo > 0 THEN x.hi + 1 ELSE x.hi

\* big.Int.Div by 10^9: Euclidean division, the remainder is never negative
DivLimbs(x) == x.hi

\* Bug variant of ValidatorReward: the total is divided with Quo
ValidatorReward_TruncatedQuo(index, income) ==
    LET clRewardsGwei   == TotalClRewards(income)
        elRewardsWei    == WeiLimbs(income.TxFeeRewardWei)
        totalRewardsWei == AddLimbs(GweiToWeiLimbs(clRewardsGwei), elRewardsWei)
    IN  [ ValidatorIndex   |-> index,
          ClRewardsGwei    |-> clRewardsGwei,
          ElRewardsGwei    |-> DivLimbs(elRewardsWei),
          TotalRewardsGwei |-> QuoLimbs(totalRewardsWei) ]

\* ValidatorReward of one cache record: CL gwei, EL gwei = wei / 10^9, and
\* total = (CL gwei * 10^9 + EL wei) / 10^9
ValidatorReward(index, income) ==
    LET clRewardsGwei   == TotalClRewards(income)
        elRewardsWei    == WeiLimbs(income.TxFeeRewardWei)
        totalRewardsWei == AddLimbs(GweiToWeiLimbs(clRewardsGwei), elRewardsWei)
    IN  [ ValidatorIndex   |-> index,
          ClRewardsGwei    |-> clRewardsGwei,
          ElRewardsGwei    |-> DivLimbs(elRewardsWei),
          TotalRewardsGwei |-> DivLimbs(totalRewardsWei) ]

\* GetTotalRewards: a ValidatorReward, computed under the read lock, for
\* every requested index that is in the cache
GetTotalRewards(c, validatorIndices) ==
    [v \in validatorIndices \cap DOMAIN c |-> ValidatorReward(v, c[v])]

\* GetRewards: the cache's own pointers of the requested indices in the cache
GetRewards(c, validatorIndices) ==
    [v \in validatorIndices \cap DOMAIN c |-> c[v]]

\* GetAllRewards: a new map holding the cache's own pointers
GetAllRewards(c) == [v \in DOMAIN c |-> c[v]]

NoRead == [kind |-> "none", indices |-> {}, pointers |-> << >>, value |-> << >>]

RdIdle ==
    /\ rdCache = << >>
    /\ rdHeap = << >>
    /\ rdMux = "free"
    /\ rdPc = "off"
    /\ rdEpoch = RdFirstEpoch
    /\ rdPending = {}
    /\ rdResets = 0
    /\ rdWindowStart = WindowStartAfter(0)
    /\ rdLatest = RdFirstEpoch - 1
    /\ rdStartedAt = << >>
    /\ rdWindow = {}
    /\ rdStable = {}
    /\ rdResult = NoRead
    /\ rdSeen = NoRead

\* The service runs: an empty cache, processEpoch about to be called
RdStart ==
    /\ rdCache = << >>
    /\ rdHeap = << >>
    /\ rdMux = "free"
    /\ rdPc = "idle"
    /\ rdEpoch = RdFirstEpoch
    /\ rdPending = {}
    /\ rdResets = 0
    /\ rdWindowStart = WindowStartAfter(0)
    /\ rdLatest = RdFirstEpoch - 1
    /\ rdStartedAt = << >>
    /\ rdWindow = {}
    /\ rdStable = { CacheView(<< >>, << >>, WindowStartAfter(0), RdFirstEpoch - 1) }
    /\ rdResult = NoRead
    /\ rdSeen = NoRead

\* processEpoch is called with the next epoch and GetRewardsForEpoch starts
ProcessEpochFetch ==
    /\ rdPc = "idle"
    /\ rdPc' = "fetching"
    /\ rdStartedAt' = [e \in DOMAIN rdStartedAt \cup {rdEpoch} |->
                          IF e = rdEpoch THEN rdResets ELSE rdStartedAt[e]]
    /\ UNCHANGED << rdCache, rdHeap, rdMux, rdEpoch, rdPending, rdResets, rdWindowStart,
                    rdLatest, rdWindow, rdStable, rdResult, rdSeen >>
    /\ UNCHANGED rdOnly

\* GetRewardsForEpoch failed: processEpoch returns the error with the cache
\* untouched, and the epoch is tried again
ProcessEpochError ==
    /\ rdPc = "fetching"
    /\ rdPc' = "idle"
    /\ UNCHANGED << rdCache, rdHeap, rdMux, rdEpoch, rdPending, rdResets, rdWindowStart,
                    rdLatest, rdStartedAt, rdWindow, rdStable, rdResult, rdSeen >>
    /\ UNCHANGED rdOnly

\* GetRewardsForEpoch returned the rewards: s.cacheMux.Lock(), whatever
\* happened to the window during the fetch
ProcessEpochLock ==
    /\ rdPc = "fetching"
    /\ rdMux = "free"
    /\ rdMux' = "merge"
    /\ rdPc' = "merging"
    /\ rdPending' = DOMAIN EpochRewards(rdEpoch)
    /\ UNCHANGED << rdCache, rdHeap, rdEpoch, rdResets, rdWindowStart, rdLatest,
                    rdStartedAt, rdWindow, rdStable, rdResult, rdSeen >>
    /\ UNCHANGED rdOnly

\* accumulateRewards on the map of pointers: a first-seen validator gets a
\* newly allocated copy, a known one has its record updated in place
accumulateInPlace(c, heap, v, income) ==
    IF v \notin DOMAIN c
    THEN LET a == Cardinality(DOMAIN heap) + 1
         IN  [ cache |-> [w \in DOMAIN c \cup {v} |-> IF w = v THEN a ELSE c[w]],
               heap  |-> [b \in DOMAIN heap \cup {a} |-> IF b = a THEN income ELSE heap[b]] ]
    ELSE [ cache |-> c,
           heap  |-> [heap EXCEPT ![c[v]] = accumulateRewards(Deref(c, heap), v, income)[v]] ]

\* One iteration of the merge loop; after the last one the high-water mark is
\* recorded and s.cacheMux.Unlock() releases the cache
ProcessEpochMerge ==
    /\ rdPc = "merging"
    /\ \E v \in rdPending :
          LET after == accumulateInPlace(rdCache, rdHeap, v, EpochRewards(rdEpoch)[v])
              latest == advanceLatestSyncEpoch(rdLatest, rdEpoch)
          IN  /\ rdCache' = after.cache
              /\ rdHeap' = after.heap
              /\ rdWindow' = rdWindow \cup {rdEpoch}
              /\ rdPending' = rdPending \ {v}
              /\ IF rdPending = {v}
                 THEN /\ rdLatest' = latest
                      /\ rdMux' = "free"
                      /\ rdEpoch' = rdEpoch + 1
                      /\ rdPc' = IF rdEpoch + 1 \in RdEpochs THEN "idle" ELSE "done"
                      /\ rdStable' = rdStable \cup
                            { CacheView(after.cache, after.heap, rdWindowStart, latest) }
                 ELSE UNCHANGED << rdLatest, rdMux, rdEpoch, rdPc, rdStable >>
    /\ UNCHANGED << rdResets, rdWindowStart, rdStartedAt, rdResult, rdSeen >>
    /\ UNCHANGED rdOnly

\* cacheResetTimer at the boundary: Lock, s.cache = make(...), the window
\* restarts, Unlock. The records of the old map stay where they are
WindowReset ==
    /\ rdPc # "off"
    /\ rdMux = "free"
    /\ rdResets < MaxRdResets
    /\ rdCache' = << >>
    /\ rdResets' = rdResets + 1
    /\ rdWindowStart' = WindowStartAfter(rdResets + 1)
    /\ rdWindow' = {}
    /\ rdStable' = rdStable \cup
          { CacheView(<< >>, rdHeap, WindowStartAfter(rdResets + 1), rdLatest) }
    /\ UNCHANGED << rdHeap, rdMux, rdPc, rdEpoch, rdPending, rdLatest, rdStartedAt,
                    rdResult, rdSeen >>
    /\ UNCHANGED rdOnly

readFrame == << rdOnly, rdCache, rdHeap, rdMux, rdPc, rdEpoch, rdPending, rdResets,
                rdWindowStart, rdLatest, rdStartedAt, rdWindow, rdStable, rdSeen >>

\* GetAllRewards: RLock, copy the map's pointers, RUnlock
GetAllRewardsCall ==
    /\ rdPc # "off"
    /\ rdMux = "free"
    /\ rdResult' = [kind |-> "GetAllRewards", indices |-> Validators,
                    pointers |-> GetAllRewards(rdCache), value |-> << >>]
    /\ UNCHANGED readFrame

\* GetRewards: RLock, copy the pointers of the requested validators, RUnlock
GetRewardsCall ==
    /\ rdPc # "off"
    /\ rdMux = "free"
    /\ \E indices \in IndexLists :
          rdResult' = [kind |-> "GetRewards", indices |-> indices,
                       pointers |-> GetRewards(rdCache, indices), value |-> << >>]
    /\ UNCHANGED readFrame

\* GetTotalRewards: RLock, compute the rewards from the records, RUnlock
GetTotalRewardsCall ==
    /\ rdPc # "off"
    /\ rdMux = "free"
    /\ \E indices \in IndexLists :
          rdResult' = [kind |-> "GetTotalRewards", indices |-> indices,
                       pointers |-> << >>,
                       value |-> GetTotalRewards(Deref(rdCache, rdHeap), indices)]
    /\ UNCHANGED readFrame

\* TotalNetworkRewards: RLock, sum the records, RUnlock
TotalNetworkRewardsCall ==
    /\ rdPc # "off"
    /\ rdMux = "free"
    /\ rdResult' = [kind |-> "TotalNetworkRewards", indices |-> Validators,
                    pointers |-> << >>,
                    value |-> TotalNetworkRewards(Deref(rdCache, rdHeap),
                                                  rdWindowStart, rdLatest)]
    /\ UNCHANGED readFrame

\* The caller uses the result of its read call, at any time after the call and
\* without a lock: values are what the call computed, pointers are followed
CallerReads ==
    /\ rdResult.kind # "none"
    /\ rdSeen' = [rdResult EXCEPT
                    !.value = IF rdResult.kind \in {"GetAllRewards", "GetRewards"}
                              THEN Deref(rdResult.pointers, rdHeap)
                              ELSE rdResult.value]
    /\ UNCHANGED << rdCache, rdHeap, rdMux, rdPc, rdEpoch, rdPending, rdResets,
                    rdWindowStart, rdLatest, rdStartedAt, rdWindow, rdStable, rdResult >>
    /\ UNCHANGED rdOnly

NextRd ==
    \/ ProcessEpochFetch
    \/ ProcessEpochError
    \/ ProcessEpochLock
    \/ ProcessEpochMerge
    \/ WindowReset
    \/ GetAllRewardsCall
    \/ GetRewardsCall
    \/ GetTotalRewardsCall
    \/ TotalNetworkRewardsCall
    \/ CallerReads

\* --------------------------------------------------------------------------
\* Backfill: the producer, the jobs channel and the workers
\* --------------------------------------------------------------------------
\* Largest configured BackfillConcurrency of a run (the smallest is -1)
MaxBfConcurrency == 2
ConfiguredConcurrency == (0 - 1)..MaxBfConcurrency

\* The backfill range: two epochs more than the largest jobs channel holds
BfFrom == 1
BfTo == workerCount(MaxBfConcurrency) * JobsPerWorker + 2
BfRange == BfFrom..BfTo

\* cap(jobs) of make(chan uint64, workerCount*16)
JobsCapacity(configured) == workerCount(configured) * JobsPerWorker

BfWorkers(configured) == 1..workerCount(configured)

BfIdleWorker == [pc |-> "idle", epoch |-> NoEpoch]

BfIdle ==
    /\ bfConcurrency = 1
    /\ bfCtxDone = FALSE
    /\ bfPc = "off"
    /\ bfEpoch = BfFrom
    /\ bfJobs = << >>
    /\ bfWorker = [w \in BfWorkers(1) |-> [pc |-> "exited", epoch |-> NoEpoch]]
    /\ bfProcessed = [e \in BfRange |-> 0]

\* The workers are started and the producer enters its loop
BfStart ==
    /\ bfConcurrency \in ConfiguredConcurrency
    /\ bfCtxDone = FALSE
    /\ bfPc = "produce"
    /\ bfEpoch = BfFrom
    /\ bfJobs = << >>
    /\ bfWorker = [w \in BfWorkers(bfConcurrency) |-> BfIdleWorker]
    /\ bfProcessed = [e \in BfRange |-> 0]

\* Service.Stop cancels s.ctx while backfill runs or after it
BfCancel ==
    /\ bfPc # "off"
    /\ ~bfCtxDone
    /\ bfCtxDone' = TRUE
    /\ UNCHANGED << bfConcurrency, bfPc, bfEpoch, bfJobs, bfWorker, bfProcessed >>
    /\ UNCHANGED bfOnly

\* Bug variant of BfSend: the send goes through whatever the channel holds
BfSend_Unbounded ==
    /\ bfPc = "produce"
    /\ producerHasNext(bfEpoch, BfTo)
    /\ bfJobs' = Append(bfJobs, bfEpoch)
    /\ bfEpoch' = bfEpoch + 1
    /\ UNCHANGED << bfConcurrency, bfCtxDone, bfPc, bfWorker, bfProcessed >>
    /\ UNCHANGED bfOnly

\* Producer, case jobs <- epoch: possible while the buffer has room (the
\* select may take this case also when s.ctx is done)
BfSend ==
    /\ bfPc = "produce"
    /\ producerHasNext(bfEpoch, BfTo)
    /\ Len(bfJobs) < JobsCapacity(bfConcurrency)
    /\ bfJobs' = Append(bfJobs, bfEpoch)
    /\ bfEpoch' = bfEpoch + 1
    /\ UNCHANGED << bfConcurrency, bfCtxDone, bfPc, bfWorker, bfProcessed >>
    /\ UNCHANGED bfOnly

\* Producer, case <-s.ctx.Done(): break produce, then close(jobs)
BfBreak ==
    /\ bfPc = "produce"
    /\ producerHasNext(bfEpoch, BfTo)
    /\ bfCtxDone
    /\ bfPc' = "wait"
    /\ UNCHANGED << bfConcurrency, bfCtxDone, bfEpoch, bfJobs, bfWorker, bfProcessed >>
    /\ UNCHANGED bfOnly

\* Producer: the loop condition epoch <= to fails, close(jobs)
BfClose ==
    /\ bfPc = "produce"
    /\ ~producerHasNext(bfEpoch, BfTo)
    /\ bfPc' = "wait"
    /\ UNCHANGED << bfConcurrency, bfCtxDone, bfEpoch, bfJobs, bfWorker, bfProcessed >>
    /\ UNCHANGED bfOnly

\* Idle workers are interchangeable: the lowest-numbered idle worker stands for
\* whichever worker receives next, the highest-numbered for whichever returns next
BfLowestIdle(w) == \A w2 \in DOMAIN bfWorker : w2 < w => bfWorker[w2].pc # "idle"
BfHighestIdle(w) == \A w2 \in DOMAIN bfWorker : w2 > w => bfWorker[w2].pc # "idle"

\* Worker, case epoch, ok := <-jobs with ok: s.processEpoch(epoch) is called
BfReceive(w) ==
    /\ bfPc \in {"produce", "wait"}
    /\ bfWorker[w].pc = "idle"
    /\ BfLowestIdle(w)
    /\ bfJobs # << >>
    /\ bfJobs' = Tail(bfJobs)
    /\ bfWorker' = [bfWorker EXCEPT ![w] = [pc |-> "processing", epoch |-> Head(bfJobs)]]
    /\ UNCHANGED << bfConcurrency, bfCtxDone, bfPc, bfEpoch, bfProcessed >>
    /\ UNCHANGED bfOnly

\* s.processEpoch(epoch) returns (with or without a merge) and the worker
\* is back at its select
BfProcessed(w) ==
    /\ bfWorker[w].pc = "processing"
    /\ bfProcessed' = [bfProcessed EXCEPT ![bfWorker[w].epoch] = @ + 1]
    /\ bfWorker' = [bfWorker EXCEPT ![w] = BfIdleWorker]
    /\ UNCHANGED << bfConcurrency, bfCtxDone, bfPc, bfEpoch, bfJobs >>
    /\ UNCHANGED bfOnly

\* Worker, case <-s.ctx.Done(): return
BfWorkerCancelled(w) ==
    /\ bfPc \in {"produce", "wait"}
    /\ bfWorker[w].pc = "idle"
    /\ BfHighestIdle(w)
    /\ bfCtxDone
    /\ bfWorker' = [bfWorker EXCEPT ![w] = [pc |-> "exited", epoch |-> NoEpoch]]
    /\ UNCHANGED << bfConcurrency, bfCtxDone, bfPc, bfEpoch, bfJobs, bfProcessed >>
    /\ UNCHANGED bfOnly

\* Bug variant of BfWorkerClosed: the worker returns when it finds the channel
\* empty, closed or not
BfWorkerClosed_OnEmpty(w) ==
    /\ bfPc \in {"produce", "wait"}
    /\ bfWorker[w].pc = "idle"
    /\ BfHighestIdle(w)
    /\ bfJobs = << >>
    /\ bfWorker' = [bfWorker EXCEPT ![w] = [pc |-> "exited", epoch |-> NoEpoch]]
    /\ UNCHANGED << bfConcurrency, bfCtxDone, bfPc, bfEpoch, bfJobs, bfProcessed >>
    /\ UNCHANGED bfOnly

\* Worker, case epoch, ok := <-jobs with !ok (closed and drained): return
BfWorkerClosed(w) ==
    /\ bfPc = "wait"
    /\ bfWorker[w].pc = "idle"
    /\ BfHighestIdle(w)
    /\ bfJobs = << >>
    /\ bfWorker' = [bfWorker EXCEPT ![w] = [pc |-> "exited", epoch |-> NoEpoch]]
    /\ UNCHANGED << bfConcurrency, bfCtxDone, bfPc, bfEpoch, bfJobs, bfProcessed >>
    /\ UNCHANGED bfOnly

\* wg.Wait() returns once every worker has returned, and backfill returns
BfReturn ==
    /\ bfPc = "wait"
    /\ \A w \in DOMAIN bfWorker : bfWorker[w].pc = "exited"
    /\ bfPc' = "returned"
    /\ UNCHANGED << bfConcurrency, bfCtxDone, bfEpoch, bfJobs, bfWorker, bfProcessed >>
    /\ UNCHANGED bfOnly

NextBf ==
    \/ BfCancel
    \/ BfSend
    \/ BfBreak
    \/ BfClose
    \/ BfReturn
    \/ \E w \in DOMAIN bfWorker : BfReceive(w)
    \/ \E w \in DOMAIN bfWorker : BfProcessed(w)
    \/ \E w \in DOMAIN bfWorker : BfWorkerCancelled(w)
    \/ \E w \in DOMAIN bfWorker : BfWorkerClosed(w)

\* --------------------------------------------------------------------------
\* Network snapshot: window, metadata store and projected APR
\* --------------------------------------------------------------------------
\* Number of validators the cache may hold and of epochs merged in a run
MaxNsValidators == 2
MaxNsEpochs == 2

\* The epoch of the start time, as in the test (latestSyncEpoch = TimeToEpoch(now))
NsEpoch == TimeToEpoch(StartTime)

\* Reset intervals a configuration may give (CACHE_RESET_INTERVAL must be > 0)
NsIntervals == { SecondsPerHour, CacheResetIntervalSeconds }

\* Rows of the validators table: active, not yet activated, exited, and
\* active with a large balance
NsRows ==
    << [index |-> 1, activation |-> 0, exit |-> NsEpoch + 1000, balance |-> 32],
       [index |-> 2, activation |-> NsEpoch + 1, exit |-> NsEpoch + 1000, balance |-> 32],
       [index |-> 3, activation |-> 0, exit |-> NsEpoch, balance |-> 31],
       [index |-> 4, activation |-> NsEpoch, exit |-> NsEpoch + 1, balance |-> 2048] >>

\* The stores: absent, failing, an empty table, a table without an active
\* validator, and tables with active validators
NsStores ==
    { NilDB, ErrDB, TableDB({}), TableDB({NsRows[2], NsRows[3]}),
      TableDB({NsRows[1], NsRows[2]}), TableDB({NsRows[1], NsRows[3], NsRows[4]}) }

NsIdle ==
    /\ nsPick = << >>
    /\ nsWindowStart = StartTime
    /\ nsLatest = 0
    /\ nsInterval = CacheResetIntervalSeconds
    /\ nsDb = NilDB
    /\ nsOut = << >>

\* A service two hours into its window, as in the test, or right at its start
NsStart ==
    /\ nsPick \in { << >>, (1 :> 1) }
    /\ nsWindowStart \in { StartTime - 2 * SecondsPerHour, EpochToTime(NsEpoch) }
    /\ nsLatest = NsEpoch
    /\ nsInterval \in NsIntervals
    /\ nsDb \in NsStores
    /\ nsOut = << >>

\* svc.cache[v] = entry
NsPut ==
    /\ nsLatest # 0
    /\ \E v \in 1..MaxNsValidators, i \in 1..Len(SnapEntries) :
          /\ v \notin DOMAIN nsPick
          /\ nsPick' = nsPick @@ (v :> i)
    /\ nsOut' = << >>
    /\ UNCHANGED << nsWindowStart, nsLatest, nsInterval, nsDb >>
    /\ UNCHANGED nsOnly

\* An epoch is merged: the high-water mark moves on
NsAdvance ==
    /\ nsLatest # 0
    /\ nsLatest < NsEpoch + MaxNsEpochs
    /\ nsLatest' = nsLatest + 1
    /\ nsOut' = << >>
    /\ UNCHANGED << nsPick, nsWindowStart, nsInterval, nsDb >>
    /\ UNCHANGED nsOnly

\* A window reset: empty map, the window starts now (an epoch's end or later,
\* the safe head being behind the clock), latestSyncEpoch stays
NsReset ==
    /\ nsLatest # 0
    /\ \E later \in { 0, 2 * SECONDS_PER_EPOCH } :
          /\ nsWindowStart < EpochToTime(nsLatest) + later
          /\ nsWindowStart' = EpochToTime(nsLatest) + later
    /\ nsPick' = << >>
    /\ nsOut' = << >>
    /\ UNCHANGED << nsLatest, nsInterval, nsDb >>
    /\ UNCHANGED nsOnly

\* svc.TotalNetworkRewards() at the epoch of the high-water mark
NsTake ==
    /\ nsLatest # 0
    /\ nsOut' = << NetworkSnapshot(SnapCache(nsPick), nsWindowStart, nsLatest, nsInterval,
                                   nsDb, NsEpoch) >>
    /\ UNCHANGED << nsPick, nsWindowStart, nsLatest, nsInterval, nsDb >>
    /\ UNCHANGED nsOnly

NextNs ==
    \/ NsPut
    \/ NsAdvance
    \/ NsReset
    \/ NsTake

\* --------------------------------------------------------------------------
\* GetTotalRewards on caches with negative CL and wei that is no whole gwei
\* --------------------------------------------------------------------------
\* Validator indices a caller may ask for and entries the cache may hold
MaxGtIndex == 3
MaxGtEntries == 2
GtIndices == 1..MaxGtIndex

GtIdle ==
    /\ gtPick = << >>
    /\ gtOut = << >>

GtStart ==
    /\ gtPick = << >>
    /\ gtOut = << >>

\* svc.cache[v] = entry
GtPut ==
    /\ Cardinality(DOMAIN gtPick) < MaxGtEntries
    /\ \E v \in GtIndices, i \in 1..Len(SnapEntries) :
          /\ v \notin DOMAIN gtPick
          /\ gtPick' = gtPick @@ (v :> i)
    /\ gtOut' = << >>
    /\ UNCHANGED gtOnly

\* svc.GetTotalRewards(validatorIndices)
GtCall ==
    /\ \E validatorIndices \in SUBSET GtIndices :
          gtOut' = << [ indices |-> validatorIndices,
                        result  |-> GetTotalRewards(SnapCache(gtPick), validatorIndices) ] >>
    /\ UNCHANGED gtPick
    /\ UNCHANGED gtOnly

NextGt ==
    \/ GtPut
    \/ GtCall

\* --------------------------------------------------------------------------
\* The recent-rewards estimator (internal/server/estimation.go)
\* --------------------------------------------------------------------------
\* uint64 and the float64 mantissa, scaled down: every unsigned value of
\* UintBits bits is tried, and a float holds MantissaBits significant bits
UintBits == 5
MantissaBits == 4

\* The widths the address handler's estimate is computed with
WideUintBits == 30
WideMantissaBits == 24

RECURSIVE BitLen(_)
BitLen(n) == IF n = 0 THEN 0 ELSE 1 + BitLen(n \div 2)

\* float64(n) of a non-negative integer: the nearest value of `mantissa`
\* significant bits, ties to even
ToFloat(mantissa, n) ==
    IF BitLen(n) <= mantissa THEN n
    ELSE LET unit == Pow2(BitLen(n) - mantissa)
             q    == n \div unit
             r    == n % unit
             up   == 2 * r > unit \/ (2 * r = unit /\ q % 2 = 1)
         IN  (IF up THEN q + 1 ELSE q) * unit

\* Bug variant of activeSecondsInWindowOf: the window start is subtracted
\* without the guard and wraps
activeSecondsInWindowOf_Unguarded(bits, mantissa, lifecycle, currentEpoch, epochsInWindow) ==
    LET windowStart == (currentEpoch - epochsInWindow) % Pow2(bits)
        start == Max(lifecycle.ActivationEpoch, windowStart)
        end   == Min(lifecycle.ExitEpoch, currentEpoch)
    IN  IF end <= start THEN 0
        ELSE ToFloat(mantissa, ToFloat(mantissa, (end - start) % Pow2(bits))
                               * ToFloat(mantissa, SECONDS_PER_EPOCH))

\* activeSecondsInWindow on unsigned integers of `bits` bits and floats of
\* `mantissa` bits
activeSecondsInWindowOf(bits, mantissa, lifecycle, currentEpoch, epochsInWindow) ==
    LET windowStart == IF currentEpoch > epochsInWindow
                       THEN (currentEpoch - epochsInWindow) % Pow2(bits)
                       ELSE 0
        start == Max(lifecycle.ActivationEpoch, windowStart)
        end   == Min(lifecycle.ExitEpoch, currentEpoch)
    IN  IF end <= start THEN 0
        ELSE ToFloat(mantissa, ToFloat(mantissa, (end - start) % Pow2(bits))
                               * ToFloat(mantissa, SECONDS_PER_EPOCH))

activeSecondsInWindow(lifecycle, currentEpoch, epochsInWindow) ==
    activeSecondsInWindowOf(UintBits, MantissaBits, lifecycle, currentEpoch, epochsInWindow)

Uints == 0..(Pow2(UintBits) - 1)

NoSeconds == 0 - 1

AsIdle == asCall = << >>

\* The epoch of the request and the window length, any two unsigned values
AsStart ==
    \E currentEpoch \in Uints, epochsInWindow \in Uints :
       asCall = << [ activation |-> 0, exit |-> 0,
                     currentEpoch |-> currentEpoch, epochsInWindow |-> epochsInWindow,
                     seconds |-> NoSeconds ] >>

\* activeSecondsInWindow(lifecycle, currentEpoch, epochsInWindow) of any
\* lifecycle
ActiveSecondsCall ==
    /\ asCall[1].seconds = NoSeconds
    /\ \E activation \in Uints, exit \in Uints :
          asCall' = << [ asCall[1] EXCEPT
                           !.activation = activation,
                           !.exit = exit,
                           !.seconds = activeSecondsInWindow(
                                          [ActivationEpoch |-> activation, ExitEpoch |-> exit],
                                          asCall[1].currentEpoch, asCall[1].epochsInWindow) ] >>
    /\ UNCHANGED asOnly

NextAs ==
    \/ ActiveSecondsCall

\* --------------------------------------------------------------------------
\* Address aggregation (Server.addressRewardsHandler) over a live cache
\* --------------------------------------------------------------------------
MaxArValidators == 2
MaxArEpochs == 2

estimateWindowDays == 31

\* 6975 epochs = 31 days
estimateWindowEpochs == (estimateWindowDays * SecondsPerDay) \div SECONDS_PER_EPOCH

\* estimateRecentRewardsForValidators: the sum is kept as its terms, one per
\* validator with a lifecycle and active seconds in the window, each the
\* factors of float64(balance) * apr * (activeSeconds / secondsPerYear)
RECURSIVE estimateRecentRewardsForValidators(_, _, _, _, _, _, _)
estimateRecentRewardsForValidators(validatorIndices, aprPercent, currentEpoch, epochsInWindow, effectiveBalances, depositBalances, lifecycles) ==
    IF aprPercent.rewards <= 0 \/ Len(validatorIndices) = 0 \/ epochsInWindow = 0 THEN << >>
    ELSE LET idx  == Head(validatorIndices)
             rest == IF Len(validatorIndices) = 1 THEN << >>
                     ELSE estimateRecentRewardsForValidators(
                              Tail(validatorIndices), aprPercent, currentEpoch, epochsInWindow,
                              effectiveBalances, depositBalances, lifecycles)
             held == IF idx \in DOMAIN effectiveBalances THEN effectiveBalances[idx] ELSE 0
             balance == IF held > 0 THEN held
                        ELSE IF idx \in DOMAIN depositBalances /\ depositBalances[idx] > 0
                             THEN depositBalances[idx]
                             ELSE defaultEffectiveBalance
             activeSeconds == activeSecondsInWindowOf(WideUintBits, WideMantissaBits,
                                                      lifecycles[idx], currentEpoch, epochsInWindow)
         IN  IF idx \notin DOMAIN lifecycles \/ activeSeconds = 0 THEN rest
             ELSE << [balance |-> balance, apr |-> aprPercent, activeSeconds |-> activeSeconds] >>
                  \o rest

\* The epoch of the request: utils.TimeToEpoch(time.Now())
ArEpoch == TimeToEpoch(StartTime)

ArValidators == 1..MaxArValidators

\* What the store may hold of a validator: active, active from this epoch to
\* the next and without an effective balance, not yet activated, exited at
\* this epoch
ArDetails ==
    { [ActivationEpoch |-> 0, ExitEpoch |-> ArEpoch + 1000,
       EffectiveBalance |-> 32, TotalDepositGwei |-> 32],
      [ActivationEpoch |-> ArEpoch, ExitEpoch |-> ArEpoch + 1,
       EffectiveBalance |-> 0, TotalDepositGwei |-> 33],
      [ActivationEpoch |-> ArEpoch + 1, ExitEpoch |-> ArEpoch + 1000,
       EffectiveBalance |-> 32, TotalDepositGwei |-> 0],
      [ActivationEpoch |-> 0, ExitEpoch |-> ArEpoch,
       EffectiveBalance |-> 31, TotalDepositGwei |-> 32] }

\* The incomes an epoch gives a validator
ArIncome(v) == IF v = 1 THEN SnapEntries[1] ELSE SnapEntries[5]

\* doraDB.ValidatorDetailsByAddress: one row per validator of the address, in
\* index order
RECURSIVE DetailRows(_, _)
DetailRows(details, from) ==
    IF from > MaxArValidators THEN << >>
    ELSE (IF from \in DOMAIN details
          THEN << details[from] @@ [ValidatorIndex |-> from] >>
          ELSE << >>) \o DetailRows(details, from + 1)

\* Bug variant of Partition: a validator that exits at the current epoch
\* still counts as active
RECURSIVE Partition_ExitInclusive(_, _)
Partition_ExitInclusive(rows, currentEpoch) ==
    IF rows = << >>
    THEN [allValidatorIndices |-> << >>, activeValidatorIndices |-> << >>,
          effectiveBalances |-> << >>, depositBalances |-> << >>, lifecycles |-> << >>]
    ELSE LET d    == rows[Len(rows)]
             idx  == d.ValidatorIndex
             prev == Partition_ExitInclusive(SubSeq(rows, 1, Len(rows) - 1), currentEpoch)
         IN  [ allValidatorIndices |-> Append(prev.allValidatorIndices, idx),
               activeValidatorIndices |->
                   IF d.ActivationEpoch <= currentEpoch /\ d.ExitEpoch >= currentEpoch
                   THEN Append(prev.activeValidatorIndices, idx)
                   ELSE prev.activeValidatorIndices,
               effectiveBalances |->
                   IF d.EffectiveBalance > 0
                   THEN (idx :> d.EffectiveBalance) @@ prev.effectiveBalances
                   ELSE prev.effectiveBalances,
               depositBalances |->
                   IF d.TotalDepositGwei > 0
                   THEN (idx :> d.TotalDepositGwei) @@ prev.depositBalances
                   ELSE prev.depositBalances,
               lifecycles |->
                   (idx :> [ActivationEpoch |-> d.ActivationEpoch, ExitEpoch |-> d.ExitEpoch])
                      @@ prev.lifecycles ]

\* The handler's loop over the details: every index, the indices active at
\* the current epoch, the positive balances and the lifecycles
RECURSIVE Partition(_, _)
Partition(rows, currentEpoch) ==
    IF rows = << >>
    THEN [allValidatorIndices |-> << >>, activeValidatorIndices |-> << >>,
          effectiveBalances |-> << >>, depositBalances |-> << >>, lifecycles |-> << >>]
    ELSE LET d    == rows[Len(rows)]
             idx  == d.ValidatorIndex
             prev == Partition(SubSeq(rows, 1, Len(rows) - 1), currentEpoch)
         IN  [ allValidatorIndices |-> Append(prev.allValidatorIndices, idx),
               activeValidatorIndices |->
                   IF d.ActivationEpoch <= currentEpoch /\ d.ExitEpoch > currentEpoch
                   THEN Append(prev.activeValidatorIndices, idx)
                   ELSE prev.activeValidatorIndices,
               effectiveBalances |->
                   IF d.EffectiveBalance > 0
                   THEN (idx :> d.EffectiveBalance) @@ prev.effectiveBalances
                   ELSE prev.effectiveBalances,
               depositBalances |->
                   IF d.TotalDepositGwei > 0
                   THEN (idx :> d.TotalDepositGwei) @@ prev.depositBalances
                   ELSE prev.depositBalances,
               lifecycles |->
                   (idx :> [ActivationEpoch |-> d.ActivationEpoch, ExitEpoch |-> d.ExitEpoch])
                      @@ prev.lifecycles ]

\* The indices of a list
IndexSet(validatorIndices) == { validatorIndices[i] : i \in DOMAIN validatorIndices }

\* Service.GetTotalRewards(validatorIndices, effectiveBalances): the rewards
\* of the requested indices in the cache, each with the balance supplied (0
\* when none is) and the network's projected APR
GetTotalRewardsOf(c, windowStart, latest, validatorIndices, effectiveBalances) ==
    [v \in IndexSet(validatorIndices) \cap DOMAIN c |->
        [ reward |-> ValidatorReward(v, c[v]),
          EffectiveBalanceGwei |-> IF v \in DOMAIN effectiveBalances
                                   THEN effectiveBalances[v] ELSE 0,
          ProjectAprPercent |-> TotalNetworkRewards(c, windowStart, latest).project_apr_percent ]]

\* Service.GetRewardWindow: the start and the end of the current window
GetRewardWindow(windowStart, latest) ==
    [start |-> windowStart, end |-> Max(EpochToTime(latest), windowStart)]

\* The handler's summing loop: the active indices without rewards are skipped
RECURSIVE AddressSums(_, _)
AddressSums(activeValidatorIndices, validatorRewards) ==
    IF activeValidatorIndices = << >>
    THEN [ClRewardsGwei |-> 0, ElRewardsGwei |-> 0, TotalRewardsGwei |-> 0,
          TotalEffectiveBalanceGwei |-> 0]
    ELSE LET idx  == activeValidatorIndices[Len(activeValidatorIndices)]
             prev == AddressSums(
                        SubSeq(activeValidatorIndices, 1, Len(activeValidatorIndices) - 1),
                        validatorRewards)
         IN  IF idx \notin DOMAIN validatorRewards THEN prev
             ELSE LET r == validatorRewards[idx] IN
                  [ ClRewardsGwei    |-> prev.ClRewardsGwei + r.reward.ClRewardsGwei,
                    ElRewardsGwei    |-> prev.ElRewardsGwei + r.reward.ElRewardsGwei,
                    TotalRewardsGwei |-> prev.TotalRewardsGwei + r.reward.TotalRewardsGwei,
                    TotalEffectiveBalanceGwei |->
                        prev.TotalEffectiveBalanceGwei + r.EffectiveBalanceGwei ]

NoRequest ==
    [rows |-> << >>, allValidatorIndices |-> << >>, activeValidatorIndices |-> << >>,
     effectiveBalances |-> << >>, depositBalances |-> << >>, lifecycles |-> << >>]

ArIdlePc == [handler |-> "idle", stake |-> "none", rewards |-> "none", snapshot |-> "none"]

NoReads == [stake |-> << >>, rewards |-> << >>, window |-> << >>, estimated |-> << >>]

NoSeen == [rewards |-> << >>, window |-> << >>, snapshot |-> << >>]

\* The version of the cache: its window and its high-water mark; every merge
\* and every reset gives a new one
ArVersion == << arWindowStart, arLatest >>

ArIdle ==
    /\ arCache = EmptyCache
    /\ arWindowStart = StartTime
    /\ arLatest = 0
    /\ arReq = NoRequest
    /\ arPc = ArIdlePc
    /\ arReads = NoReads
    /\ arSeen = NoSeen
    /\ arResult = << >>

\* A service two hours into its window, three epochs behind the clock
ArStart ==
    /\ arCache = EmptyCache
    /\ arWindowStart = StartTime - 2 * SecondsPerHour
    /\ arLatest = ArEpoch - 3
    /\ arReq = NoRequest
    /\ arPc = ArIdlePc
    /\ arReads = NoReads
    /\ arSeen = NoSeen
    /\ arResult = << >>

\* processEpoch merges an epoch under the write lock
ArMerge ==
    /\ arLatest < ArEpoch - 3 + MaxArEpochs
    /\ \E S \in SUBSET ArValidators :
          /\ S # {}
          /\ arCache' = MergeAll(arCache, [v \in S |-> ArIncome(v)], S)
    /\ arLatest' = arLatest + 1
    /\ UNCHANGED << arWindowStart, arReq, arPc, arReads, arSeen, arResult >>
    /\ UNCHANGED arOnly

\* The window reset, due once: the map is emptied and the window starts now
ArReset ==
    /\ arWindowStart < StartTime
    /\ arCache' = EmptyCache
    /\ arWindowStart' = StartTime
    /\ UNCHANGED << arLatest, arReq, arPc, arReads, arSeen, arResult >>
    /\ UNCHANGED arOnly

\* The handler up to wg.Add(3): the details of the address are loaded and
\* partitioned, the three goroutines start
ArRequest ==
    /\ arPc.handler = "idle"
    /\ \E D \in SUBSET ArValidators : \E details \in [D -> ArDetails] :
          LET rows == DetailRows(details, 1) IN
          arReq' = [rows |-> rows] @@ Partition(rows, ArEpoch)
    /\ arPc' = [handler |-> "waiting", stake |-> "query", rewards |-> "rewards",
                snapshot |-> "snapshot"]
    /\ UNCHANGED << arCache, arWindowStart, arLatest, arReads, arSeen, arResult >>
    /\ UNCHANGED arOnly

\* First goroutine: the weighted average stake time of all indices, left at
\* zero without indices or when the query fails
ArStakeTime ==
    /\ arPc.stake = "query"
    /\ \E ok \in BOOLEAN :
          arReads' = [arReads EXCEPT !.stake =
                         IF ok /\ Len(arReq.allValidatorIndices) # 0
                         THEN << arReq.allValidatorIndices >> ELSE << >>]
    /\ arPc' = [arPc EXCEPT !.stake = "done"]
    /\ UNCHANGED << arCache, arWindowStart, arLatest, arReq, arSeen, arResult >>
    /\ UNCHANGED arOnly

\* Second goroutine, first call: GetTotalRewards under the read lock
ArReadRewards ==
    /\ arPc.rewards = "rewards"
    /\ arReads' = [arReads EXCEPT !.rewards =
                      << GetTotalRewardsOf(arCache, arWindowStart, arLatest,
                                           arReq.activeValidatorIndices,
                                           arReq.effectiveBalances) >>]
    /\ arSeen' = [arSeen EXCEPT !.rewards = << [version |-> ArVersion, cache |-> arCache] >>]
    /\ arPc' = [arPc EXCEPT !.rewards = "window"]
    /\ UNCHANGED << arCache, arWindowStart, arLatest, arReq, arResult >>
    /\ UNCHANGED arOnly

\* Second goroutine, second call: GetRewardWindow, the lock taken anew
ArReadWindow ==
    /\ arPc.rewards = "window"
    /\ arReads' = [arReads EXCEPT !.window = << GetRewardWindow(arWindowStart, arLatest) >>]
    /\ arSeen' = [arSeen EXCEPT !.window = << [version |-> ArVersion] >>]
    /\ arPc' = [arPc EXCEPT !.rewards = "done"]
    /\ UNCHANGED << arCache, arWindowStart, arLatest, arReq, arResult >>
    /\ UNCHANGED arOnly

\* Third goroutine: TotalNetworkRewards and the estimate made with its APR
ArReadSnapshot ==
    /\ arPc.snapshot = "snapshot"
    /\ LET networkSnapshot == TotalNetworkRewards(arCache, arWindowStart, arLatest) IN
       arReads' = [arReads EXCEPT !.estimated =
                      << [ apr   |-> networkSnapshot.project_apr_percent,
                           terms |-> estimateRecentRewardsForValidators(
                                        arReq.allValidatorIndices,
                                        networkSnapshot.project_apr_percent,
                                        ArEpoch, estimateWindowEpochs,
                                        arReq.effectiveBalances, arReq.depositBalances,
                                        arReq.lifecycles) ] >>]
    /\ arSeen' = [arSeen EXCEPT !.snapshot = << [version |-> ArVersion] >>]
    /\ arPc' = [arPc EXCEPT !.snapshot = "done"]
    /\ UNCHANGED << arCache, arWindowStart, arLatest, arReq, arResult >>
    /\ UNCHANGED arOnly

\* After wg.Wait(): the result is built and the sums are taken
ArRespond ==
    /\ arPc = [handler |-> "waiting", stake |-> "done", rewards |-> "done", snapshot |-> "done"]
    /\ arResult' = << [ ActiveValidatorCount |-> Len(arReq.activeValidatorIndices),
                        WindowStart |-> arReads.window[1].start,
                        WindowEnd   |-> arReads.window[1].end,
                        WeightedAverageStakeTime |-> arReads.stake,
                        EstimatedHistoryRewards31dGwei |-> arReads.estimated[1].terms ]
                      @@ AddressSums(arReq.activeValidatorIndices, arReads.rewards[1]) >>
    /\ arPc' = [arPc EXCEPT !.handler = "responded"]
    /\ UNCHANGED << arCache, arWindowStart, arLatest, arReq, arReads, arSeen >>
    /\ UNCHANGED arOnly

NextAr ==
    \/ ArMerge
    \/ ArReset
    \/ ArRequest
    \/ ArStakeTime
    \/ ArReadRewards
    \/ ArReadWindow
    \/ ArReadSnapshot
    \/ ArRespond

\* --------------------------------------------------------------------------
\* The history log (internal/rewards/history.go): a jsonl file behind a mutex
\* --------------------------------------------------------------------------
MaxAppenders == 2
MaxHsAppends == 3

Appenders == 1..MaxAppenders

\* The bytes of the file, as tokens: a newline, a space, or one JSON document
NewlineToken == [kind |-> "newline", doc |-> << >>]
SpaceToken == [kind |-> "space", doc |-> << >>]
DocToken(doc) == [kind |-> "doc", doc |-> << doc >>]

\* time.Time.MarshalJSON (RFC 3339): the date and the time of day
FormatTime(t) ==
    [ day    |-> t \div SecondsPerDay,
      hour   |-> (t % SecondsPerDay) \div SecondsPerHour,
      minute |-> ((t % SecondsPerHour) \div 60),
      second |-> t % 60 ]

\* time.Time.UnmarshalJSON
ParseTime(text) ==
    text.day * SecondsPerDay + text.hour * SecondsPerHour + text.minute * 60 + text.second

\* json.Marshal of a NetworkRewardSnapshot: the fields under their json names
MarshalSnapshot(entry) ==
    [ window_start                 |-> FormatTime(entry.WindowStart),
      window_end                   |-> FormatTime(entry.WindowEnd),
      window_duration_seconds      |-> entry.WindowDurationSeconds,
      validator_count              |-> entry.ValidatorCount,
      cl_rewards_gwei              |-> entry.ClRewardsGwei,
      el_rewards_gwei              |-> entry.ElRewardsGwei,
      total_rewards_gwei           |-> entry.TotalRewardsGwei,
      total_effective_balance_gwei |-> entry.TotalEffectiveBalanceGwei,
      daily_apr_percent            |-> entry.DailyAprPercent ]

\* json.Unmarshal into a NetworkRewardSnapshot
UnmarshalSnapshot(doc) ==
    [ WindowStart               |-> ParseTime(doc.window_start),
      WindowEnd                 |-> ParseTime(doc.window_end),
      WindowDurationSeconds     |-> doc.window_duration_seconds,
      ValidatorCount            |-> doc.validator_count,
      ClRewardsGwei             |-> doc.cl_rewards_gwei,
      ElRewardsGwei             |-> doc.el_rewards_gwei,
      TotalRewardsGwei          |-> doc.total_rewards_gwei,
      TotalEffectiveBalanceGwei |-> doc.total_effective_balance_gwei,
      DailyAprPercent           |-> doc.daily_apr_percent ]

\* Bug variant of EncodeLine: the document is written without its newline
EncodeLine_NoNewline(entry) == << DocToken(MarshalSnapshot(entry)) >>

\* json.Encoder.Encode: the document and a newline, in one write
EncodeLine(entry) == << DocToken(MarshalSnapshot(entry)), NewlineToken >>

\* bufio.Scanner with ScanLines: the tokens between newlines, a last line
\* without newline included
RECURSIVE ScanLines(_, _)
ScanLines(tokens, current) ==
    IF tokens = << >> THEN (IF current = << >> THEN << >> ELSE << current >>)
    ELSE IF Head(tokens).kind = "newline"
         THEN << current >> \o ScanLines(Tail(tokens), << >>)
         ELSE ScanLines(Tail(tokens), Append(current, Head(tokens)))

\* bytes.TrimSpace
RECURSIVE bytesTrimSpace(_)
bytesTrimSpace(line) ==
    IF line = << >> THEN line
    ELSE IF Head(line).kind = "space" THEN bytesTrimSpace(Tail(line))
    ELSE IF line[Len(line)].kind = "space"
         THEN bytesTrimSpace(SubSeq(line, 1, Len(line) - 1))
         ELSE line

\* ReadAll's loop over the lines: blank lines are skipped, a line that is not
\* one JSON document is an error
RECURSIVE ReadLines(_, _)
ReadLines(lines, entries) ==
    IF lines = << >> THEN [entries |-> entries, err |-> FALSE]
    ELSE LET trimmed == bytesTrimSpace(Head(lines)) IN
         IF Len(trimmed) = 0 THEN ReadLines(Tail(lines), entries)
         ELSE IF Len(trimmed) # 1 \/ trimmed[1].kind # "doc"
              THEN [entries |-> << >>, err |-> TRUE]
              ELSE ReadLines(Tail(lines),
                             Append(entries, UnmarshalSnapshot(trimmed[1].doc[1])))

\* HistoryStore.ReadAll under the mutex: nothing of a nil store or a missing
\* file, else the entries of the lines
ReadAll(store, file) ==
    IF store = "nil" \/ ~file.exists THEN [entries |-> << >>, err |-> FALSE]
    ELSE ReadLines(ScanLines(file.bytes, << >>), << >>)

\* The snapshots appended: one window after another
HsSnapshot(k) ==
    [ WindowStart               |-> StartTime + (k - 1) * SecondsPerDay + k,
      WindowEnd                 |-> StartTime + k * SecondsPerDay + 61 * k,
      WindowDurationSeconds     |-> SecondsPerDay + 60 * k,
      ValidatorCount            |-> k,
      ClRewardsGwei             |-> 64 * k,
      ElRewardsGwei             |-> k,
      TotalRewardsGwei          |-> 65 * k,
      TotalEffectiveBalanceGwei |-> 32 * k,
      DailyAprPercent           |-> k ]

\* The files a store may find: none, an empty one, blank lines
HsFiles ==
    { [exists |-> FALSE, bytes |-> << >>],
      [exists |-> TRUE, bytes |-> << >>],
      [exists |-> TRUE, bytes |-> << NewlineToken >>],
      [exists |-> TRUE, bytes |-> << SpaceToken, NewlineToken, NewlineToken >>] }

HsIdle ==
    /\ hsStore = "nil"
    /\ hsFile = [exists |-> FALSE, bytes |-> << >>]
    /\ hsMu = 0
    /\ hsPc = << >>
    /\ hsEntry = << >>
    /\ hsRet = << >>
    /\ hsLog = << >>
    /\ hsRead = << >>

\* NewHistoryStore: nil for an empty path
HsStart ==
    /\ hsStore \in {"nil", "file"}
    /\ hsFile \in HsFiles
    /\ hsStore = "nil" => ~hsFile.exists
    /\ hsMu = 0
    /\ hsPc = [a \in Appenders |-> "idle"]
    /\ hsEntry = [a \in Appenders |-> << >>]
    /\ hsRet = [a \in Appenders |-> "none"]
    /\ hsLog = << >>
    /\ hsRead = << >>

\* Append is called: a nil store or a nil entry returns at once
AppendCall(a) ==
    /\ hsPc[a] = "idle"
    /\ Len(hsLog) < MaxHsAppends
    /\ \E entry \in {<< >>} \cup { << HsSnapshot(k) >> : k \in 1..MaxHsAppends } :
          /\ hsEntry' = [hsEntry EXCEPT ![a] = entry]
          /\ IF hsStore = "nil" \/ entry = << >>
             THEN /\ hsRet' = [hsRet EXCEPT ![a] = "nil"]
                  /\ hsPc' = hsPc
             ELSE /\ hsRet' = [hsRet EXCEPT ![a] = "none"]
                  /\ hsPc' = [hsPc EXCEPT ![a] = "lock"]
    /\ UNCHANGED << hsStore, hsFile, hsMu, hsLog, hsRead >>
    /\ UNCHANGED hsOnly

\* s.mu.Lock()
AppendLock(a) ==
    /\ hsPc[a] = "lock"
    /\ hsMu = 0
    /\ hsMu' = a
    /\ hsPc' = [hsPc EXCEPT ![a] = "write"]
    /\ UNCHANGED << hsStore, hsFile, hsEntry, hsRet, hsLog, hsRead >>
    /\ UNCHANGED hsOnly

\* MkdirAll, OpenFile and Encode: an error before the file is opened leaves
\* the file, an error of the encoder leaves a file that exists, and the
\* encoder's one write appends the line
AppendWrite(a) ==
    /\ hsPc[a] = "write"
    /\ \E outcome \in {"written", "open failed", "encode failed"} :
          /\ hsFile' = IF outcome = "open failed" THEN hsFile
                       ELSE IF outcome = "encode failed"
                            THEN [hsFile EXCEPT !.exists = TRUE]
                            ELSE [exists |-> TRUE,
                                  bytes  |-> hsFile.bytes \o EncodeLine(hsEntry[a][1])]
          /\ hsLog' = IF outcome = "written"
                      THEN Append(hsLog, [by |-> a, entry |-> hsEntry[a][1]])
                      ELSE hsLog
          /\ hsRet' = [hsRet EXCEPT ![a] = IF outcome = "written" THEN "nil" ELSE "error"]
    /\ hsPc' = [hsPc EXCEPT ![a] = "unlock"]
    /\ UNCHANGED << hsStore, hsMu, hsEntry, hsRead >>
    /\ UNCHANGED hsOnly

\* The deferred s.mu.Unlock()
AppendUnlock(a) ==
    /\ hsPc[a] = "unlock"
    /\ hsMu' = 0
    /\ hsPc' = [hsPc EXCEPT ![a] = "idle"]
    /\ UNCHANGED << hsStore, hsFile, hsEntry, hsRet, hsLog, hsRead >>
    /\ UNCHANGED hsOnly

\* ReadAll, the mutex held from the open to the return
ReadAllCall ==
    /\ hsMu = 0
    /\ hsRead' = << ReadAll(hsStore, hsFile) @@ [appended |-> hsLog] >>
    /\ UNCHANGED << hsStore, hsFile, hsMu, hsPc, hsEntry, hsRet, hsLog >>
    /\ UNCHANGED hsOnly

NextHs ==
    \/ \E a \in DOMAIN hsPc : AppendCall(a)
    \/ \E a \in DOMAIN hsPc : AppendLock(a)
    \/ \E a \in DOMAIN hsPc : AppendWrite(a)
    \/ \E a \in DOMAIN hsPc : AppendUnlock(a)
    \/ ReadAllCall

vars == << mainVars, accVars, retryVars, snapVars, seVars, rtVars, cvVars, naVars, obVars, aprVars, iqrVars, gfVars, rdVars, bfVars, nsVars, gtVars, asVars, arVars, hsVars >>

MainIdle ==
    /\ now = StartTime
    /\ cfg = [StartEpoch |-> 0, BackfillLookback |-> 0, EpochProcessMaxRetries |-> 1]
    /\ ctxDone = TRUE
    /\ cache = EmptyCache
    /\ latestSyncEpoch = 0
    /\ cacheWindowStart = StartTime
    /\ cacheMux = "free"
    /\ history = <<>>
    /\ syncPc = "stopped"
    /\ jobs = <<>>
    /\ nextJob = NoEpoch
    /\ backfillTo = NoEpoch
    /\ backfillFrom = NoEpoch
    /\ proc = [p \in Procs |-> IdleProc]
    /\ resetPc = "exited"
    /\ nextReset = NextMidnight(StartTime)
    /\ resetSnap = <<>>
    /\ mergedCount = [e \in {} |-> 0]
    /\ clearedCl = 0
    /\ resetStats = [resets |-> 0, nonEmpty |-> 0, appended |-> 0]
    /\ liveSkipped = {}
    /\ backfillSkipped = {}

\* The service: synchronizer, workers, window resetter, clock and shutdown
Init == InitMain /\ AccIdle /\ RetryIdle /\ SnapIdle /\ SeIdle /\ RtIdle /\ CvIdle /\ NaIdle /\ ObIdle /\ AprIdle /\ IqrIdle /\ GfIdle /\ RdIdle /\ BfIdle /\ NsIdle /\ GtIdle /\ AsIdle /\ ArIdle /\ HsIdle
Next == NextMain
Spec == Init /\ [][Next]_vars

\* Steps of the synchronizer goroutine (Start, producer, wg.Wait, live loop)
SyncStep ==
    \/ Start
    \/ ProducerEnqueue
    \/ ProducerCancelled
    \/ ProducerDone
    \/ BackfillWait
    \/ Handoff
    \/ LiveTick
    \/ LiveContinue
    \/ LiveStop

\* Steps of the goroutine p inside its select and processEpoch
ProcStep(p) ==
    \/ p \in Workers /\ (WorkerTake(p) \/ WorkerCancelled(p) \/ WorkerClosed(p))
    \/ FetchFail(p)
    \/ BackoffElapsed(p)
    \/ BackoffCancelled(p)
    \/ MergeLock(p)
    \/ MergeStep(p)

\* Steps of the window resetter goroutine
ResetStep ==
    \/ ResetFire
    \/ ResetAppend
    \/ ResetClear
    \/ ResetCancelled

\* The Go scheduler runs every runnable goroutine: a goroutine whose next step
\* stays possible takes it. The clock and Service.Stop are not forced.
Fairness ==
    /\ WF_vars(SyncStep)
    /\ \A p \in Procs : WF_vars(ProcStep(p))
    /\ WF_vars(ResetStep)

\* The service started with a StartEpoch or a lookback (a backfill range of at
\* most MaxTicks epochs), with scheduling fairness of its goroutines
InitFair == Init /\ (cfg.StartEpoch # 0 \/ cfg.BackfillLookback > 0)
SpecFair == InitFair /\ [][Next]_vars /\ Fairness

\* Accumulation of one validator's records in two orders
InitAcc == MainIdle /\ AccStart /\ RetryIdle /\ SnapIdle /\ SeIdle /\ RtIdle /\ CvIdle /\ NaIdle /\ ObIdle /\ AprIdle /\ IqrIdle /\ GfIdle /\ RdIdle /\ BfIdle /\ NsIdle /\ GtIdle /\ AsIdle /\ ArIdle /\ HsIdle
SpecAcc == InitAcc /\ [][NextAcc]_vars

\* The retry loop of one epoch
InitRetry == MainIdle /\ AccIdle /\ RetryStart /\ SnapIdle /\ SeIdle /\ RtIdle /\ CvIdle /\ NaIdle /\ ObIdle /\ AprIdle /\ IqrIdle /\ GfIdle /\ RdIdle /\ BfIdle /\ NsIdle /\ GtIdle /\ AsIdle /\ ArIdle /\ HsIdle
SpecRetry == InitRetry /\ [][NextRetry]_vars

\* Normalisation of one address input
InitNa == MainIdle /\ AccIdle /\ RetryIdle /\ SnapIdle /\ SeIdle /\ RtIdle /\ CvIdle /\ NaStart /\ ObIdle /\ AprIdle /\ IqrIdle /\ GfIdle /\ RdIdle /\ BfIdle /\ NsIdle /\ GtIdle /\ AsIdle /\ ArIdle /\ HsIdle
SpecNa == InitNa /\ [][NextNa]_vars
InitOb == MainIdle /\ AccIdle /\ RetryIdle /\ SnapIdle /\ SeIdle /\ RtIdle /\ CvIdle /\ NaIdle /\ ObStart /\ AprIdle /\ IqrIdle /\ GfIdle /\ RdIdle /\ BfIdle /\ NsIdle /\ GtIdle /\ AsIdle /\ ArIdle /\ HsIdle
SpecOb == InitOb /\ [][NextOb]_vars
InitHs == MainIdle /\ AccIdle /\ RetryIdle /\ SnapIdle /\ SeIdle /\ RtIdle /\ CvIdle /\ NaIdle /\ ObIdle /\ AprIdle /\ IqrIdle /\ GfIdle /\ RdIdle /\ BfIdle /\ NsIdle /\ GtIdle /\ AsIdle /\ ArIdle /\ HsStart
SpecHs == InitHs /\ [][NextHs]_vars
InitAr == MainIdle /\ AccIdle /\ RetryIdle /\ SnapIdle /\ SeIdle /\ RtIdle /\ CvIdle /\ NaIdle /\ ObIdle /\ AprIdle /\ IqrIdle /\ GfIdle /\ RdIdle /\ BfIdle /\ NsIdle /\ GtIdle /\ AsIdle /\ ArStart /\ HsIdle
SpecAr == InitAr /\ [][NextAr]_vars
InitAs == MainIdle /\ AccIdle /\ RetryIdle /\ SnapIdle /\ SeIdle /\ RtIdle /\ CvIdle /\ NaIdle /\ ObIdle /\ AprIdle /\ IqrIdle /\ GfIdle /\ RdIdle /\ BfIdle /\ NsIdle /\ GtIdle /\ AsStart /\ ArIdle /\ HsIdle
SpecAs == InitAs /\ [][NextAs]_vars
InitGt == MainIdle /\ AccIdle /\ RetryIdle /\ SnapIdle /\ SeIdle /\ RtIdle /\ CvIdle /\ NaIdle /\ ObIdle /\ AprIdle /\ IqrIdle /\ GfIdle /\ RdIdle /\ BfIdle /\ NsIdle /\ GtStart /\ AsIdle /\ ArIdle /\ HsIdle
SpecGt == InitGt /\ [][NextGt]_vars
InitNs == MainIdle /\ AccIdle /\ RetryIdle /\ SnapIdle /\ SeIdle /\ RtIdle /\ CvIdle /\ NaIdle /\ ObIdle /\ AprIdle /\ IqrIdle /\ GfIdle /\ RdIdle /\ BfIdle /\ NsStart /\ GtIdle /\ AsIdle /\ ArIdle /\ HsIdle
SpecNs == InitNs /\ [][NextNs]_vars
\* Steps of the goroutine that runs backfill
BfProducerStep ==
    \/ BfSend
    \/ BfBreak
    \/ BfClose
    \/ BfReturn

\* Steps of worker w
BfWorkerStep(w) ==
    \/ BfReceive(w)
    \/ BfProcessed(w)
    \/ BfWorkerCancelled(w)
    \/ BfWorkerClosed(w)

\* Every epoch fetch terminates and the Go scheduler runs every runnable
\* goroutine: a goroutine whose next step stays possible takes it.
\* Cancellation is not forced.
BfFairness ==
    /\ WF_vars(BfProducerStep)
    /\ \A w \in BfWorkers(MaxBfConcurrency) : WF_vars(w \in DOMAIN bfWorker /\ BfWorkerStep(w))

InitBf == MainIdle /\ AccIdle /\ RetryIdle /\ SnapIdle /\ SeIdle /\ RtIdle /\ CvIdle /\ NaIdle /\ ObIdle /\ AprIdle /\ IqrIdle /\ GfIdle /\ RdIdle /\ BfStart /\ NsIdle /\ GtIdle /\ AsIdle /\ ArIdle /\ HsIdle
SpecBf == InitBf /\ [][NextBf]_vars
SpecBfFair == InitBf /\ [][NextBf]_vars /\ BfFairness
InitRd == MainIdle /\ AccIdle /\ RetryIdle /\ SnapIdle /\ SeIdle /\ RtIdle /\ CvIdle /\ NaIdle /\ ObIdle /\ AprIdle /\ IqrIdle /\ GfIdle /\ RdStart /\ BfIdle /\ NsIdle /\ GtIdle /\ AsIdle /\ ArIdle /\ HsIdle
SpecRd == InitRd /\ [][NextRd]_vars
InitGf == MainIdle /\ AccIdle /\ RetryIdle /\ SnapIdle /\ SeIdle /\ RtIdle /\ CvIdle /\ NaIdle /\ ObIdle /\ AprIdle /\ IqrIdle /\ GfStart /\ RdIdle /\ BfIdle /\ NsIdle /\ GtIdle /\ AsIdle /\ ArIdle /\ HsIdle
SpecGf == InitGf /\ [][NextGf]_vars
InitIqr == MainIdle /\ AccIdle /\ RetryIdle /\ SnapIdle /\ SeIdle /\ RtIdle /\ CvIdle /\ NaIdle /\ ObIdle /\ AprIdle /\ IqrStart /\ GfIdle /\ RdIdle /\ BfIdle /\ NsIdle /\ GtIdle /\ AsIdle /\ ArIdle /\ HsIdle
SpecIqr == InitIqr /\ [][NextIqr]_vars
InitApr == MainIdle /\ AccIdle /\ RetryIdle /\ SnapIdle /\ SeIdle /\ RtIdle /\ CvIdle /\ NaIdle /\ ObIdle /\ AprStart /\ IqrIdle /\ GfIdle /\ RdIdle /\ BfIdle /\ NsIdle /\ GtIdle /\ AsIdle /\ ArIdle /\ HsIdle
SpecApr == InitApr /\ [][NextApr]_vars

\* An epoch to the metadata store's column and back
InitCv == MainIdle /\ AccIdle /\ RetryIdle /\ SnapIdle /\ SeIdle /\ RtIdle /\ CvStart /\ NaIdle /\ ObIdle /\ AprIdle /\ IqrIdle /\ GfIdle /\ RdIdle /\ BfIdle /\ NsIdle /\ GtIdle /\ AsIdle /\ ArIdle /\ HsIdle
SpecCv == InitCv /\ [][NextCv]_vars

\* The epoch clock: an epoch to its time and back
InitRt == MainIdle /\ AccIdle /\ RetryIdle /\ SnapIdle /\ SeIdle /\ RtStart /\ CvIdle /\ NaIdle /\ ObIdle /\ AprIdle /\ IqrIdle /\ GfIdle /\ RdIdle /\ BfIdle /\ NsIdle /\ GtIdle /\ AsIdle /\ ArIdle /\ HsIdle
SpecRt == InitRt /\ [][NextRt]_vars

\* One call of Service.startEpoch
InitSe == MainIdle /\ AccIdle /\ RetryIdle /\ SnapIdle /\ SeStart /\ RtIdle /\ CvIdle /\ NaIdle /\ ObIdle /\ AprIdle /\ IqrIdle /\ GfIdle /\ RdIdle /\ BfIdle /\ NsIdle /\ GtIdle /\ AsIdle /\ ArIdle /\ HsIdle
SpecSe == InitSe /\ [][NextSe]_vars

\* Snapshots of caches of up to MaxSnapValidators entries
InitSnap == MainIdle /\ AccIdle /\ RetryIdle /\ SnapStart /\ SeIdle /\ RtIdle /\ CvIdle /\ NaIdle /\ ObIdle /\ AprIdle /\ IqrIdle /\ GfIdle /\ RdIdle /\ BfIdle /\ NsIdle /\ GtIdle /\ AsIdle /\ ArIdle /\ HsIdle
SpecSnap == InitSnap /\ [][NextSnap]_vars

\* --------------------------------------------------------------------------
\* Properties of the service
\* --------------------------------------------------------------------------
Active(p) == proc[p].pc \in {"fetching", "backoff", "merging", "done"}
Quiescent == resetPc \in {"waiting", "exited"} /\ \A p \in Procs : proc[p].pc # "merging"
BackfillMerged == { e \in DOMAIN mergedCount : e <= backfillTo }
LiveMerged == { e \in DOMAIN mergedCount : e > backfillTo }

\* CL gwei of one epoch's upstream rewards
EpochClGwei(epoch) == CacheClGwei(EpochRewards(epoch))

RECURSIVE MergedClGwei(_)
MergedClGwei(E) ==
    IF E = {} THEN 0
    ELSE LET e == CHOOSE x \in E : TRUE
         IN  mergedCount[e] * EpochClGwei(e) + MergedClGwei(E \ {e})

EpochsOf(v, E) == { e \in E : v \in DOMAIN EpochRewards(e) }

\* Sum of the uint64 field f of validator v over the epochs E
RECURSIVE SumField(_, _, _)
SumField(v, f, E) ==
    IF E = {} THEN 0
    ELSE LET e == CHOOSE x \in E : TRUE
         IN  EpochRewards(e)[v][f] + SumField(v, f, E \ {e})

\* Sum of the wei of validator v over the epochs E, as a big integer
RECURSIVE SumWeiField(_, _)
SumWeiField(v, E) ==
    IF E = {} THEN <<>>
    ELSE LET e == CHOOSE x \in E : TRUE
         IN  BigAdd(SetBytes(EpochRewards(e)[v].TxFeeRewardWei), SumWeiField(v, E \ {e}))

\* Field-wise sum of every validator's records over the epochs from..to
RangeSum(from, to) ==
    [v \in UNION { DOMAIN EpochRewards(e) : e \in from..to } |->
        [f \in DOMAIN ZeroIncome |->
            IF f = "TxFeeRewardWei"
            THEN Bytes(SumWeiField(v, EpochsOf(v, from..to)))
            ELSE SumField(v, f, EpochsOf(v, from..to))]]

\* Backfill has returned, no epoch was given up and no reset or cancellation occurred
BackfillDoneUndisturbed ==
    /\ syncPc = "handoff"
    /\ backfillFrom <= backfillTo
    /\ backfillSkipped = {}
    /\ ~ctxDone
    /\ resetStats.resets = 0
    /\ resetPc = "waiting"

NoFetchOnceObserved ==
    /\ \A p \in Procs :
          (proc[p].pc = "backoff" /\ ctxDone) => proc'[p].pc # "fetching"
    /\ (proc[Live].pc \in {"idle", "done"} /\ ctxDone) => proc'[Live].pc # "fetching"
    /\ \A w \in Workers : proc[w].pc = "exited" => proc'[w] = proc[w]
    /\ syncPc = "wait" => Len(jobs') <= Len(jobs)
    /\ syncPc = "stopped" => syncPc' = "stopped" /\ proc'[Live] = proc[Live]

\* Backfill has returned only when no worker is running
BackfillReturnedAfterWorkers ==
    syncPc \in {"handoff", "live", "stopped"}
        => \A w \in Workers : proc[w].pc \in {"none", "exited"}

AppendFailed ==
    /\ resetPc = "clearing"
    /\ resetSnap # <<>>
    /\ (history = <<>> \/ history[Len(history)] # resetSnap[1])

\* A failed append moves on to the clearing, and the clearing after it
\* empties the map, restarts the window, keeps the high-water mark and
\* schedules the next boundary
FailedAppendStillResets ==
    /\ (resetPc = "snapshotted" /\ history' = history /\ resetPc' # resetPc)
          => (resetPc' = "clearing" /\ cacheMux' = "reset" /\ AppendFailed')
    /\ (AppendFailed /\ resetPc' # resetPc)
          => /\ cache' = EmptyCache
             /\ cacheWindowStart' = now
             /\ cacheWindowStart' > cacheWindowStart
             /\ latestSyncEpoch' = latestSyncEpoch
             /\ resetPc' = "waiting"
             /\ nextReset' = NextMidnight(now)
             /\ nextReset' > now
             /\ cacheMux' = "free"
             /\ history' = history

EpochContaining(ts) ==
    IF ts < DefaultGenesisTimestamp THEN 0
    ELSE CHOOSE e \in 0..200 :
            /\ DefaultGenesisTimestamp + e * SECONDS_PER_EPOCH <= ts
            /\ ts < DefaultGenesisTimestamp + (e + 1) * SECONDS_PER_EPOCH

C16_RoundTripIsIdentity ==
    rtBack # << >> => rtBack[1] = rtEpoch

\* C16 amended: EpochToTime(e) = G + (e + 1) * 384 is the instant epoch e
\* ends, so TimeToEpoch(EpochToTime(e)) = e + 1 exactly, and the second
\* before it is still in epoch e: TimeToEpoch(EpochToTime(e) - 1) = e.
C16_RoundTripIsSuccessor ==
    /\ rtTime # NoEpoch
          => rtTime = genesisTimestamp + (rtEpoch + 1) * SECONDS_PER_EPOCH
    /\ rtBack # << >> => (rtBack[1] = rtEpoch + 1 /\ rtBack[2] = rtEpoch)

\* The clock test's case: genesis 1800000000, EpochToTime(0) is genesis + 384,
\* which TimeToEpoch puts in epoch 1
C16_Witness ==
    /\ genesisTimestamp = TestGenesisTimestamp
    /\ rtEpoch = 0
    /\ rtTime = TestGenesisTimestamp + SECONDS_PER_EPOCH
    /\ rtBack = << 1, 0 >>

\* --------------------------------------------------------------------------
\* Properties of the epoch column conversion
\* --------------------------------------------------------------------------
\* C17: for every uint64 epoch e (0, 2^63 - 1, 2^63 and 2^64 - 1 included),
\* ConvertInt64ToUint64(convertUint64EpochToStorage(e)) = e with arithmetic
\* modulo 2^64; the stored word is e with its top bit flipped.
C17_EpochColumnRoundTrip ==
    /\ cvStored # << >>
          => /\ cvStored[1] = (cvEpoch[1] + LimbBase \div 2) % LimbBase
             /\ \A i \in 2..4 : cvStored[i] = cvEpoch[i]
    /\ cvBack # << >> => cvBack = cvEpoch

\* 2^64 - 1 is stored as 2^63 - 1 and read back as 2^64 - 1
C17_Witness ==
    /\ cvEpoch = << LimbBase - 1, LimbBase - 1, LimbBase - 1, LimbBase - 1 >>
    /\ cvStored = << LimbBase \div 2 - 1, LimbBase - 1, LimbBase - 1, LimbBase - 1 >>
    /\ cvBack = cvEpoch

\* --------------------------------------------------------------------------
\* Properties of address normalisation
\* --------------------------------------------------------------------------
\* The input without the white space around it
RECURSIVE Unpadded(_)
Unpadded(str) ==
    IF str = << >> THEN str
    ELSE IF str[1] \in WhiteSpace THEN Unpadded(SubSeq(str, 2, Len(str)))
    ELSE IF str[Len(str)] \in WhiteSpace THEN Unpadded(SubSeq(str, 1, Len(str) - 1))
    ELSE str

\* The input without the white space around it and without one 0x or 0X
AddressDigits(str) ==
    LET u == Unpadded(str)
    IN  IF Len(u) >= 2 /\ u[1] = "0" /\ u[2] \in {"x", "X"}
        THEN SubSeq(u, 3, Len(u))
        ELSE u

\* C18: NormalizeAddress is idempotent on every input it accepts, and it
\* returns the invalid-address error for every input whose length after
\* trimming white space and stripping an optional 0x/0X is not 40 or which
\* contains a non-hex character; what it accepts comes back as 0x and 40
\* lower-case hex digits.
C18_NormalizeIdempotent ==
    /\ naOnce # NotCalled
          => /\ (Len(AddressDigits(naInput)) # 40
                   \/ \E i \in 1..Len(AddressDigits(naInput)) :
                         AddressDigits(naInput)[i] \notin HexChars)
                   => naOnce = InvalidAddress
             /\ naOnce.ok
                   => /\ Len(naOnce.value) = 42
                      /\ SubSeq(naOnce.value, 1, 2) = << "0", "x" >>
                      /\ \A i \in 3..42 :
                            naOnce.value[i] \in HexChars \ {"A", "B", "C", "D", "E", "F"}
    /\ naTwice # NotCalled => naTwice = naOnce

\* The test's padded upper-case input was normalised twice with one result
C18_Witness ==
    /\ naInput = << " ", "0", "x" >> \o Repeat(UpperDigits, 40) \o << " " >>
    /\ naOnce = Normalized(<< "0", "x" >> \o Repeat(<< "a", "b", "c", "d", "e", "f" >>, 40))
    /\ naTwice = naOnce

\* The input is, once trimmed, 0x01 or 0x02 and 62 more hex digits
IsCredentials(str) ==
    LET u == Unpadded(str)
    IN  /\ Len(u) = 66
        /\ SubSeq(u, 1, 3) = << "0", "x", "0" >>
        /\ u[4] \in {"1", "2"}
        /\ \A i \in 5..66 : u[i] \in HexChars

\* C19: for every input that after trimming is 0x01 or 0x02 followed by 62
\* more hex digits, the address-rewards lookup normalises it to 0x and the
\* lower-cased last 40 digits, also with white space around the raw input.
C19_CredentialsNormalized ==
    (naLookup # NotCalled /\ IsCredentials(naInput))
        => naLookup = Normalized(<< "0", "x" >>
                                   \o ToLower(SubSeq(Unpadded(naInput), 27, 66)))

\* --------------------------------------------------------------------------
\* Properties of the ORDER BY helpers
\* --------------------------------------------------------------------------
\* The sort-field allow-list as documented and as TestOrderHelpers lists it
DocumentedSortFields ==
    { "depositor_address", "withdrawal_address", "validators_total", "slashed",
      "voluntary_exited", "active", "total_active_effective_balance" }

\* o is "asc" up to the case of its letters
IsAsc(o) ==
    /\ Len(o) = 3
    /\ o[1] \in { "a", "A" }
    /\ o[2] \in { "s", "S" }
    /\ o[3] \in { "c", "C" }

OrderByAsDocumented ==
    obTable # NoTable
        => /\ obOrderClause[1] = IF obSortBy \in DocumentedSortFields
                                 THEN obSortBy ELSE "total_deposit"
           /\ obOrderClause[1] \in DocumentedSortFields \cup { "total_deposit" }

OrderDirectionAsDocumented ==
    obTable # NoTable
        => obOrderClause[2] = IF IsAsc(obOrder) THEN "ASC" ELSE "DESC"

\* C20: OrderBy returns a documented sort field (depositor_address,
\* withdrawal_address, validators_total, slashed, voluntary_exited, active,
\* total_active_effective_balance) unchanged and total_deposit for every other
\* string, so that only these tokens reach the query; OrderDirection returns
\* ASC exactly when the order is "asc" in any case and DESC otherwise.
\* OrderBy does not: see OrderByAsDocumented.
C20_OrderHelpers == OrderByAsDocumented /\ OrderDirectionAsDocumented

\* --------------------------------------------------------------------------
\* Properties of the 31-day average APR
\* --------------------------------------------------------------------------
\* The APR values the average is over: the positive ones of the last 31
\* history entries, then the current snapshot's if there is one and it is positive
WindowValues ==
    SelectSeq(LastEntries(aprHistory, maxHistoryDays), LAMBDA apr : apr > 0)
      \o (IF aprCurrent # NilSnapshot /\ aprCurrent[1] > 0 THEN aprCurrent ELSE << >>)

\* C21: the 31-day average APR depends only on the last 31 history entries
\* and the current snapshot: the result for the whole history is the result
\* for its last 31 entries; entries with APR <= 0 are left out; no value left
\* gives 0, a single value left is returned as it is; 40 history points of
\* APR 1..40 and no current snapshot give 25 (50 half percents).
C21_AverageOfLast31 ==
    /\ (aprAvg # NotCalculated /\ aprAvgRecent # NotCalculated) => aprAvg = aprAvgRecent
    /\ aprAvg # NotCalculated =>
          /\ aprAvg = AverageOf(WindowValues)
          /\ Len(WindowValues) = 0 => aprAvg = << 0, 1 >>
          /\ Len(WindowValues) = 1 => aprAvg = << WindowValues[1], 1 >>
          /\ (aprHistory = Ramp(1, 40) /\ aprCurrent = NilSnapshot) => aprAvg = << 50, 1 >>

C21_Witness ==
    /\ aprHistory = Ramp(1, 40)
    /\ aprCurrent = NilSnapshot
    /\ aprAvg = << 50, 1 >>
    /\ aprAvgRecent = << 50, 1 >>

\* The k-th smallest (from 0) of the values, by counting
OrderStatistic(values, k) ==
    CHOOSE x \in { values[i] : i \in DOMAIN values } :
        /\ Cardinality({ i \in DOMAIN values : values[i] < x }) <= k
        /\ Cardinality({ i \in DOMAIN values : values[i] <= x }) > k

\* The values within [q1 - 1.5*iqr, q3 + 1.5*iqr], in their order
WithinIQR(values) ==
    LET n == Len(values)
        q1 == OrderStatistic(values, n \div 4)
        q3 == OrderStatistic(values, (3 * n) \div 4)
        iqr == q3 - q1
    IN  SelectSeq(values, LAMBDA v : 2 * v >= 2 * q1 - 3 * iqr /\ 2 * v <= 2 * q3 + 3 * iqr)

IQRRule ==
    iqrFiltered # NotFiltered
        => iqrFiltered = IF Len(iqrValues) < 4 THEN iqrValues ELSE WithinIQR(iqrValues)

\* C22 as stated: fewer than 4 values pass unchanged, 4 or more are cut to
\* [q1 - 1.5*iqr, q3 + 1.5*iqr] with q1 = sorted[n/4], q3 = sorted[3n/4]; of
\* {10, 10.5, 11, 11.5, 100} plus a single value 100 the 100 values are
\* filtered and the mean of the others (10.75) is returned.
C22_BothOutliersFiltered ==
    /\ IQRRule
    /\ iqrValues = << 20, 21, 22, 23, 200, 200 >> =>
          /\ iqrFiltered # NotFiltered => \A i \in DOMAIN iqrFiltered : iqrFiltered[i] # 200
          /\ iqrAvg # NotCalculated => iqrAvg = << 43, 2 >>

\* C22: fewer than 4 values pass unchanged, 4 or more are cut to
\* [q1 - 1.5*iqr, q3 + 1.5*iqr] with q1 = sorted[n/4], q3 = sorted[3n/4], and
\* the average is the mean of the values kept; of {10, 10.5, 11, 11.5} plus a
\* single value 100 the 100 is filtered and 10.75 is returned, while of
\* {10, 10.5, 11, 11.5, 100} plus a single value 100 nothing is filtered
\* (q3 is 100) and the mean of all six, 40.5, is returned.
C22_IQRFilter ==
    /\ IQRRule
    /\ (iqrAvg # NotCalculated /\ Len(iqrValues) >= 4) =>
          iqrAvg = Fraction(SumValues(WithinIQR(iqrValues)), Len(WithinIQR(iqrValues)))
    /\ iqrValues = << 20, 21, 22, 23, 200 >> =>
          /\ iqrFiltered # NotFiltered => iqrFiltered = << 20, 21, 22, 23 >>
          /\ iqrAvg # NotCalculated => iqrAvg = << 43, 2 >>
    /\ iqrValues = << 20, 21, 22, 23, 200, 200 >> =>
          /\ iqrFiltered # NotFiltered => iqrFiltered = iqrValues
          /\ iqrAvg # NotCalculated => iqrAvg = << 81, 1 >>

C22_Witness ==
    /\ iqrValues = << 20, 21, 22, 23, 200 >>
    /\ iqrFiltered = << 20, 21, 22, 23 >>
    /\ iqrAvg = << 43, 2 >>

CleanResponses(in) ==
    /\ in.assign.status = "ok"
    /\ in.att.status = "ok"
    /\ \A i \in DOMAIN in.att.data :
          in.att.data[i].Head >= 0 /\ in.att.data[i].InclusionDelay <= 0
    /\ \A s \in FetchSlots :
          /\ HasProposer(in, s)
          /\ in.exec[s].exec \in { "ok", "notfound", "premerge" }
          /\ in.exec[s].exec = "ok" => in.exec[s].el = "ok"
          /\ in.sync[s].status \in { "ok", "presync" }
          /\ in.block[s].status = "ok"

TasksFinished == \A t \in FetchTasks : gfPc[t] \notin { "ready", "entry" }

\* C24: an epoch fetch returns a map only if the proposer-assignments call,
\* the attestation task and every per-slot sub-task finished without error
\* (block not found, pre-merge and pre-sync-committees are no errors); if a
\* sub-task fails, a negative head reward, a positive inclusion delay or a
\* slot without proposer included, it returns an error and no map; and it
\* returns only after all of its sub-tasks have finished.
C24_FetchAllOrNothing ==
    gfPhase = "returned"
        => /\ gfResult.status = IF CleanResponses(gfIn) THEN "ok" ELSE "error"
           /\ gfResult.status = "error" => gfResult.rewards = EmptyCache
           /\ TasksFinished

C24_Witness ==
    /\ gfPhase = "returned"
    /\ gfResult.status = "error"
    /\ gfIn.att.status = "ok"
    /\ gfPc[AttTask] = "failed"
    /\ \A s \in FetchSlots : gfPc[<< "exec", s >>] = "done"
    /\ DOMAIN gfRewards # {}

\* C25: a failed epoch fetch attempt leaves the Reward Cache as it was: the
\* map, latestSyncEpoch and the window start are those of before the attempt,
\* whatever the failed fetch had collected.
C25_FailedFetchLeavesCache ==
    (gfPhase \in { "running", "returned" } /\ gfResult.status # "ok")
        => /\ gfCache = PriorCache
           /\ gfLatest = PriorLatest
           /\ gfWindowStart = PriorWindowStart

C25_Witness ==
    /\ gfPhase = "returned"
    /\ gfResult.status = "error"
    /\ \E v \in DOMAIN gfRewards : gfRewards[v] # ZeroIncome
    /\ gfCache = PriorCache

\* Slots of the epoch assigned to validator v whose block was not found
MissedSlots(in, v) ==
    { s \in FetchSlots : HasProposer(in, s) /\ ProposerOf(in, s) = v
                         /\ in.exec[s].exec = "notfound" }

\* Slots of the epoch assigned to validator v that have an execution block
RewardedSlots(in, v) ==
    { s \in FetchSlots : HasProposer(in, s) /\ ProposerOf(in, s) = v
                         /\ in.exec[s].exec = "ok" }

\* C26: in a successful fetch a validator's ProposalsMissed is the number of
\* its assigned slots whose block was not found; such a slot and a pre-merge
\* slot record no EL reward, and slots before sync committees no
\* sync-committee amounts; none of the three fails the fetch.
C26_MissedProposalsCounted ==
    (gfPhase = "returned" /\ gfResult.status = "ok")
        => /\ \A s \in FetchSlots : ProposerOf(gfIn, s) \in DOMAIN gfResult.rewards
           /\ \A v \in DOMAIN gfResult.rewards :
                 /\ gfResult.rewards[v].ProposalsMissed = Cardinality(MissedSlots(gfIn, v))
                 /\ RewardedSlots(gfIn, v) = {} => gfResult.rewards[v].TxFeeRewardWei = << >>
                 /\ (\A s \in FetchSlots : gfIn.sync[s].status = "presync")
                       => /\ gfResult.rewards[v].SyncCommitteeReward = 0
                          /\ gfResult.rewards[v].SyncCommitteePenalty = 0

C26_Witness ==
    /\ gfPhase = "returned"
    /\ gfResult.status = "ok"
    /\ gfIn.exec[FirstSlot].exec = "notfound"
    /\ gfResult.rewards[ProposerOf(gfIn, FirstSlot)].ProposalsMissed = 1
    /\ gfResult.rewards[ProposerOf(gfIn, FirstSlot)].ProposerAttestationInclusionReward > 0

ExactlyOne(a, b) == (a # 0) # (b # 0)

HasAttRow(in, v) == \E i \in DOMAIN in.att.data : in.att.data[i].ValidatorIndex = v
HasSyncRow(in, v) ==
    \E s \in FetchSlots : /\ in.sync[s].status = "ok"
                          /\ \E i \in DOMAIN in.sync[s].data :
                                in.sync[s].data[i].ValidatorIndex = v

\* C27: in every record of a successful fetch, for each signed upstream field
\* the validator has a value of (attestation source, attestation target,
\* sync-committee reward) exactly one of the reward field and the penalty
\* field is nonzero.
C27_ExactlyOneOfRewardAndPenalty ==
    (gfPhase = "returned" /\ gfResult.status = "ok")
        => \A v \in DOMAIN gfResult.rewards :
              /\ HasAttRow(gfIn, v) =>
                    /\ ExactlyOne(gfResult.rewards[v].AttestationSourceReward,
                                  gfResult.rewards[v].AttestationSourcePenalty)
                    /\ ExactlyOne(gfResult.rewards[v].AttestationTargetReward,
                                  gfResult.rewards[v].AttestationTargetPenalty)
              /\ HasSyncRow(gfIn, v) =>
                    ExactlyOne(gfResult.rewards[v].SyncCommitteeReward,
                               gfResult.rewards[v].SyncCommitteePenalty)

\* The map the tasks build when they run one after the other: slot by slot
\* the EL path, the sync-committee path and the block-rewards path, then the
\* attestation task
RECURSIVE SlotsInOrder(_, _, _)
SlotsInOrder(m, in, slot) ==
    IF slot \notin FetchSlots THEN m
    ELSE LET el == ExecOutcome(EnsureEntry(m, ProposerOf(in, slot)), in, slot)[1]
             sy == SyncOutcome(el, in, slot)[1]
             bl == BlockOutcome(sy, in, slot)[1]
         IN  SlotsInOrder(bl, in, slot + 1)

SequentialRewards(in) == AttOutcome(SlotsInOrder(EmptyCache, in, FirstSlot), in)[1]

\* C28: the map a successful fetch returns is a function of the upstream
\* responses: whatever the interleaving of the tasks, it is the map they
\* build when run one after the other, the EL wei of a validator that
\* proposes more than one slot of the epoch included.
C28_FetchIsDeterministic ==
    (gfPhase = "returned" /\ gfResult.status = "ok")
        => gfResult.rewards = SequentialRewards(gfIn)

\* --------------------------------------------------------------------------
\* Properties of the window reset and of the cache readers
\* --------------------------------------------------------------------------
\* C29: after a window reset the cache holds only rewards of epochs whose
\* fetch started after that reset: every epoch with a contribution in the
\* current map had its fetch started when the resets so far had happened
C29_WindowHoldsOnlyFetchesStartedInIt ==
    \A e \in rdWindow : rdStartedAt[e] = rdResets

\* What a read call of the kind and indices of rdSeen delivers on a cache
\* that no merge is working on
ReadOf(view, kind, indices) ==
    IF kind = "GetAllRewards" THEN view.cache
    ELSE IF kind = "GetRewards"
         THEN [v \in indices \cap DOMAIN view.cache |-> view.cache[v]]
    ELSE IF kind = "GetTotalRewards" THEN GetTotalRewards(view.cache, indices)
    ELSE TotalNetworkRewards(view.cache, view.windowStart, view.latest)

\* The cache once the merge loop has visited the validators in S
RECURSIVE MergeRest(_, _, _)
MergeRest(c, S, rewards) ==
    IF S = {} THEN c
    ELSE LET v == CHOOSE y \in S : TRUE
         IN  MergeRest(accumulateRewards(c, v, rewards[v]), S \ {v}, rewards)

\* The caches with every epoch merged for all of its validators or for none:
\* the cache at the boundaries of the write sections so far and, during a
\* merge, the cache at the end of that merge
WholeEpochViews ==
    rdStable \cup
    { [ cache       |-> MergeRest(Deref(rdCache, rdHeap), rdPending, EpochRewards(rdEpoch)),
        windowStart |-> rdWindowStart,
        latest      |-> advanceLatestSyncEpoch(rdLatest, rdEpoch) ] : x \in
            IF rdPc = "merging" THEN {rdEpoch} ELSE {} }

\* What the caller read is a read of a cache that holds whole epochs only
SeenWholeEpochs ==
    \E view \in WholeEpochViews : rdSeen.value = ReadOf(view, rdSeen.kind, rdSeen.indices)

\* C30: a reader never observes a partially merged epoch: what the caller of a
\* read call reads is the cache with every epoch merged for all of its
\* validators or for none
C30_ReadersSeeWholeEpochs ==
    rdSeen.kind # "none" => SeenWholeEpochs

\* --------------------------------------------------------------------------
\* Properties of backfill
\* --------------------------------------------------------------------------
InFlight == { w \in DOMAIN bfWorker : bfWorker[w].pc = "processing" }

\* The workers and the channel stay within the configured concurrency
BackfillBounded ==
    /\ Cardinality(InFlight) <= workerCount(bfConcurrency)
    /\ Cardinality(InFlight) <= IF bfConcurrency <= 0 THEN 1 ELSE bfConcurrency
    /\ Len(bfJobs) <= workerCount(bfConcurrency) * 16

\* On a full channel the only change of the channel is a worker's receive
FullQueueBlocksProducer ==
    [][Len(bfJobs) = workerCount(bfConcurrency) * 16
          => (bfJobs' = bfJobs \/ bfJobs' = Tail(bfJobs)) /\ bfEpoch' = bfEpoch]_vars

\* C31: during backfill at most BackfillConcurrency fetches are in flight (1
\* when the configured value is <= 0), at most BackfillConcurrency * 16 epochs
\* are enqueued and not yet taken, and on a full queue the producer enqueues
\* nothing until a worker dequeues
C31_BackfillBounded == []BackfillBounded /\ FullQueueBlocksProducer

\* The queue is full while the producer has more epochs to send
C31_Witness ==
    /\ bfPc = "produce"
    /\ producerHasNext(bfEpoch, BfTo)
    /\ Len(bfJobs) = workerCount(bfConcurrency) * 16
    /\ Cardinality(InFlight) = workerCount(bfConcurrency)

\* Backfill has returned with every worker gone; without cancellation every
\* epoch of the range was processed once, by one worker
ReturnedWell ==
    bfPc = "returned" =>
        /\ \A w \in DOMAIN bfWorker : bfWorker[w].pc = "exited"
        /\ ~bfCtxDone => \A e \in BfRange : bfProcessed[e] = 1

\* No epoch is ever processed twice
ProcessedAtMostOnce == \A e \in BfRange : bfProcessed[e] <= 1

\* C32: with every fetch terminating, backfill terminates, cancelled or not,
\* with every worker exited; without cancellation every epoch of [from..to]
\* was processed by exactly one worker before it returns
C32_BackfillTerminates ==
    /\ <>(bfPc = "returned")
    /\ [](ReturnedWell /\ ProcessedAtMostOnce)

\* Backfill returned without cancellation, every epoch processed
C32_Witness ==
    /\ bfPc = "returned"
    /\ ~bfCtxDone
    /\ \A e \in BfRange : bfProcessed[e] = 1

\* Backfill returned after a cancellation that left epochs unprocessed
C32_CancelledWitness ==
    /\ bfPc = "returned"
    /\ bfCtxDone
    /\ \E e \in BfRange : bfProcessed[e] = 0

\* --------------------------------------------------------------------------
\* Properties of the window resetter under cancellation
\* --------------------------------------------------------------------------
\* The step in which the waiting resetter observes the cancellation
ResetObservesCancel == resetPc = "waiting" /\ resetPc' = "exited"

\* That step changes nothing but the resetter's position
ExitLeavesState ==
    ResetObservesCancel =>
        /\ cache' = cache
        /\ cacheWindowStart' = cacheWindowStart
        /\ latestSyncEpoch' = latestSyncEpoch
        /\ history' = history
        /\ cacheMux' = cacheMux

\* After it the resetter stays out: no reset, no append, no new window
NoResetAfterExit ==
    resetPc = "exited" =>
        /\ resetPc' = "exited"
        /\ resetStats' = resetStats
        /\ history' = history
        /\ cacheWindowStart' = cacheWindowStart
        /\ cacheMux' # "reset"

\* C33: cancellation raised while the resetter waits for its boundary makes
\* the loop exit and the exit leaves the cache map, windowStart,
\* latestSyncEpoch and the history log unchanged; once the cancellation was
\* observed no reset and no history append happens
C33_CancelledResetterLeavesState ==
    /\ (ctxDone /\ resetPc = "waiting") ~> (resetPc = "exited")
    /\ [][ExitLeavesState]_vars
    /\ [][NoResetAfterExit]_vars

\* The resetter has exited, the boundary has passed since, and the merged
\* rewards are still in the cache with the window it had
C33_Witness ==
    /\ resetPc = "exited"
    /\ now >= nextReset
    /\ DOMAIN cache # {}
    /\ resetStats.resets = 0
    /\ cacheWindowStart = StartTime - 3 * SECONDS_PER_EPOCH

\* --------------------------------------------------------------------------
\* Properties of the snapshot's window, store fallback and APR
\* --------------------------------------------------------------------------
\* The window end before a missing duration is replaced
ClampedEnd == Max(EpochToTime(nsLatest), nsWindowStart)

StoreGivesNothing ==
    \/ nsDb.status \in {"nil", "error"}
    \/ ActiveRows(nsDb, NsEpoch) = {}

\* C35: with the metadata store absent, failing or answering zero the
\* snapshot is still produced, with active_validator_count = number of cache
\* entries and total_effective_balance_gwei = 32 * 10^9 per cache entry; and
\* the projected APR is 0 whenever the total effective balance is 0
C35_StoreFallback ==
    nsOut # << >> =>
        /\ StoreGivesNothing =>
              /\ nsOut[1].active_validator_count = Cardinality(DOMAIN nsPick)
              /\ nsOut[1].total_effective_balance_gwei = Cardinality(DOMAIN nsPick) * 32
        /\ nsOut[1].total_effective_balance_gwei = 0 => nsOut[1].project_apr_percent = ZeroApr

\* A failing store and a cache of two validators: 64 * 10^9 gwei, APR not 0
C35_Witness ==
    /\ nsOut # << >>
    /\ nsDb.status = "error"
    /\ Cardinality(DOMAIN nsPick) = 2
    /\ nsOut[1].total_effective_balance_gwei = 64
    /\ nsOut[1].project_apr_percent # ZeroApr

\* An empty cache without a store: balance 0 and APR 0
C35_ZeroBalance ==
    /\ nsOut # << >>
    /\ nsOut[1].total_effective_balance_gwei = 0
    /\ nsOut[1].project_apr_percent = ZeroApr

\* --------------------------------------------------------------------------
\* Properties of activeSecondsInWindow
\* --------------------------------------------------------------------------
\* The window start and the active epochs of a call, in unbounded integers
CallWindowStart(call) == Max(0, call.currentEpoch - call.epochsInWindow)

CallActiveEpochs(call) ==
    Max(0, Min(call.exit, call.currentEpoch) - Max(call.activation, CallWindowStart(call)))

\* The current epochs whose every count of active epochs, times 384, is a
\* float: 3 * E fits the mantissa (384 = 3 * 2^7)
ExactEpoch(currentEpoch) == 3 * currentEpoch < Pow2(MantissaBits)

\* C39 as stated: for all unsigned activation, exit, current epoch E and
\* window length W, activeSecondsInWindow returns
\* 384 * max(0, min(exit, E) - max(activation, max(0, E - W))), which is 0
\* when the validator exited at or before the window start or activates at or
\* after E, and never exceeds 384 * W.
C39_ActiveSecondsAsStated ==
    \A i \in DOMAIN asCall :
       LET call == asCall[i] IN
       call.seconds # NoSeconds =>
       /\ call.seconds = SECONDS_PER_EPOCH * CallActiveEpochs(call)
       /\ call.seconds <= SECONDS_PER_EPOCH * call.epochsInWindow

\* C39, amended: for all unsigned activation, exit, E and W the subtractions
\* never wrap: the result is 0 exactly when no epoch of the window is active
\* (so when the validator exited at or before the window start or activates
\* at or after E); and for every current epoch E with 3 * E below
\* 2^mantissa the result is exactly 384 * max(0, min(exit, E) -
\* max(activation, max(0, E - W))) and never exceeds 384 * W.  For larger
\* epochs the float64 conversion and product round the value.
C39_ActiveSeconds ==
    \A i \in DOMAIN asCall :
       LET call == asCall[i] IN
       call.seconds # NoSeconds =>
       /\ (call.seconds = 0) <=> (CallActiveEpochs(call) = 0)
       /\ (call.exit <= CallWindowStart(call) \/ call.activation >= call.currentEpoch)
             => call.seconds = 0
       /\ ExactEpoch(call.currentEpoch)
             => /\ call.seconds = SECONDS_PER_EPOCH * CallActiveEpochs(call)
                /\ call.seconds <= SECONDS_PER_EPOCH * call.epochsInWindow

\* A validator active through a window that starts after epoch 0: the whole
\* window counts
C39_Witness ==
    \E i \in DOMAIN asCall :
       LET call == asCall[i] IN
       /\ call.seconds # NoSeconds
       /\ ExactEpoch(call.currentEpoch)
       /\ call.currentEpoch > call.epochsInWindow
       /\ call.epochsInWindow > 1
       /\ call.activation < CallWindowStart(call)
       /\ call.exit > call.currentEpoch
       /\ call.seconds = SECONDS_PER_EPOCH * call.epochsInWindow

\* --------------------------------------------------------------------------
\* Properties of the address aggregation
\* --------------------------------------------------------------------------
\* The validators of the address active at the current epoch, from the rows
ActiveAt(rows, epoch) ==
    { rows[i].ValidatorIndex : i \in { j \in DOMAIN rows :
                                          /\ rows[j].ActivationEpoch <= epoch
                                          /\ epoch < rows[j].ExitEpoch } }

RowOf(rows, v) == rows[CHOOSE i \in DOMAIN rows : rows[i].ValidatorIndex = v]

RECURSIVE SumOf(_, _)
SumOf(f, S) ==
    IF S = {} THEN 0
    ELSE LET v == CHOOSE x \in S : TRUE IN f[v] + SumOf(f, S \ {v})

\* The sums of a response are those over the validators of the address that
\* are active at the current epoch and were in the seenCache when the rewards
\* were read
SumsOverActiveCached ==
    \A i \in DOMAIN arResult :
       LET result  == arResult[i]
           seenCache   == arSeen.rewards[1].cache
           active  == ActiveAt(arReq.rows, ArEpoch)
           counted == active \cap DOMAIN seenCache
       IN  /\ result.ClRewardsGwei =
                 SumOf([v \in counted |-> TotalClRewards(seenCache[v])], counted)
           /\ result.ElRewardsGwei =
                 SumOf([v \in counted |-> WeiToGwei(seenCache[v].TxFeeRewardWei)], counted)
           /\ result.TotalRewardsGwei =
                 SumOf([v \in counted |-> TotalClRewards(seenCache[v])
                                            + WeiToGwei(seenCache[v].TxFeeRewardWei)], counted)
           /\ result.TotalEffectiveBalanceGwei =
                 SumOf([v \in counted |-> Max(RowOf(arReq.rows, v).EffectiveBalance, 0)],
                       counted)
           /\ result.ActiveValidatorCount = Cardinality(active)

\* C37: in an address-rewards result the CL, EL, total and effective-balance
\* sums range over exactly the validators of the address that are active at
\* the current epoch E (activation <= E < exit) and have a seenCache entry;
\* validators not yet activated or already exited at E never contribute, and
\* active_validator_count counts every active validator, cached or not.
C37_SumsOverActiveCached == SumsOverActiveCached

\* A response for an address with an active validator in the seenCache and an
\* exited one in the seenCache as well: only the first is summed
C37_Witness ==
    \E i \in DOMAIN arResult :
       LET seenCache  == arSeen.rewards[1].cache
           active == ActiveAt(arReq.rows, ArEpoch)
       IN  /\ \E v \in active : v \in DOMAIN seenCache
           /\ \E j \in DOMAIN arReq.rows :
                 /\ arReq.rows[j].ValidatorIndex \in DOMAIN seenCache
                 /\ arReq.rows[j].ExitEpoch = ArEpoch
           /\ arResult[i].ClRewardsGwei # 0
           /\ arResult[i].ActiveValidatorCount = 1

\* A response that counts an active validator the seenCache does not hold
C37_UncachedWitness ==
    \E i \in DOMAIN arResult :
       /\ arResult[i].ActiveValidatorCount = 2
       /\ Cardinality(DOMAIN arSeen.rewards[1].cache) = 1
       /\ arResult[i].TotalRewardsGwei # 0

\* C38: the reward sums, the window start and end and the network APR of one
\* address-rewards response describe the same seenCache window: no window reset
\* and no epoch merge takes effect between the read of the per-validator
\* rewards, the read of the reward window and the read of the network
\* snapshot of a response.
C38_ResponseDescribesOneWindow ==
    \A i \in DOMAIN arResult :
       /\ arSeen.rewards[1].version = arSeen.window[1].version
       /\ arSeen.rewards[1].version = arSeen.snapshot[1].version

\* A response whose three reads saw one version of the seenCache
C38_SameWindowReached ==
    /\ arResult # << >>
    /\ arSeen.rewards[1].version = arSeen.window[1].version
    /\ arSeen.rewards[1].version = arSeen.snapshot[1].version
    /\ arSeen.rewards[1].cache # EmptyCache

\* --------------------------------------------------------------------------
\* Properties of the history log
\* --------------------------------------------------------------------------
\* The snapshots of the appends that returned without error, in the order
\* the mutex serialized them
AppendedSnapshots(log) == [i \in DOMAIN log |-> log[i].entry]

\* C40: after any sequence of successful appends, by any number of concurrent
\* appenders, ReadAll returns exactly the appended snapshots, one per append,
\* in the order in which the appends were serialized: no line is lost,
\* duplicated or interleaved with another; a missing or an empty file yields
\* an empty list without error, and blank lines are skipped.
C40_ReadAllReturnsAppended ==
    \A i \in DOMAIN hsRead :
       /\ ~hsRead[i].err
       /\ hsStore = "file" => hsRead[i].entries = AppendedSnapshots(hsRead[i].appended)
       /\ hsStore = "nil" => hsRead[i].entries = << >>

\* Two appenders have appended different snapshots to a file that began with
\* blank lines, and ReadAll returned both in order
C40_Witness ==
    \E i \in DOMAIN hsRead :
       /\ Len(hsRead[i].entries) = 2
       /\ hsRead[i].appended[1].by # hsRead[i].appended[2].by
       /\ hsRead[i].entries[1] # hsRead[i].entries[2]
       /\ hsFile.bytes[1].kind = "space"

\* ReadAll of a missing file
C40_MissingFile ==
    /\ hsStore = "file"
    /\ ~hsFile.exists
    /\ hsRead # << >>
    /\ hsRead[1].entries = << >>

\* --------------------------------------------------------------------------
\* Properties of the network snapshot
\* --------------------------------------------------------------------------
\* CL gwei (rewards minus penalties) and EL half gwei of each entry of SnapEntries
SnapClGwei == << 64, 7, 0, 0, 0 - 5 >>
SnapElHalfGwei == << 10, 1, 3, 0, 1 >>

RECURSIVE SumPicked(_, _, _)
SumPicked(table, pick, S) ==
    IF S = {} THEN 0
    ELSE LET v == CHOOSE y \in S : TRUE
         IN  table[pick[v]] + SumPicked(table, pick, S \ {v})

\* C14: the network snapshot reports CL gwei = sum over entries of CL rewards
\* minus penalties, EL gwei = floor(sum of the entries' wei / 10^9), the wei
\* summed before the division, and total = CL + EL; one validator with
\* CL 64 gwei and 5 * 10^9 wei gives 69.
C14_SnapshotSums ==
    snapOut # << >> =>
        /\ snapOut[1].active_validator_count = Cardinality(DOMAIN snapPick)
        /\ snapOut[1].cl_rewards_gwei = SumPicked(SnapClGwei, snapPick, DOMAIN snapPick)
        /\ snapOut[1].el_rewards_gwei
              = SumPicked(SnapElHalfGwei, snapPick, DOMAIN snapPick) \div 2
        /\ snapOut[1].total_rewards_gwei
              = snapOut[1].cl_rewards_gwei + snapOut[1].el_rewards_gwei
        /\ snapPick = (1 :> 1) => snapOut[1].total_rewards_gwei = 69

\* Two entries of half a gwei of EL each make one gwei in the snapshot
C14_Witness ==
    /\ snapOut # << >>
    /\ snapPick = (1 :> 2) @@ (2 :> 5)
    /\ snapOut[1].el_rewards_gwei = 1
    /\ snapOut[1].cl_rewards_gwei = 2
    /\ snapOut[1].total_rewards_gwei = 3

\* --------------------------------------------------------------------------
\* Properties of GetTotalRewards
\* --------------------------------------------------------------------------
\* The result has the requested indices that are in the cache and no other,
\* each with CL, EL = floor(wei / 10^9) and total = CL + EL
TotalRewardsAsDocumented ==
    gtOut # << >> =>
        LET indices == gtOut[1].indices
            result  == gtOut[1].result
        IN  /\ DOMAIN result = { v \in indices : v \in DOMAIN gtPick }
            /\ \A v \in DOMAIN result :
                  /\ result[v].ValidatorIndex = v
                  /\ result[v].ClRewardsGwei = SnapClGwei[gtPick[v]]
                  /\ result[v].ElRewardsGwei = SnapElHalfGwei[gtPick[v]] \div 2
                  /\ result[v].TotalRewardsGwei
                        = SnapClGwei[gtPick[v]] + (SnapElHalfGwei[gtPick[v]] \div 2)

\* A call leaves the cache as it is
CallLeavesCache == (gtOut' # gtOut /\ gtOut' # << >>) => gtPick' = gtPick

\* C36: GetTotalRewards returns an entry for exactly the requested indices in
\* the cache; el_gwei = floor(TxFeeRewardWei / 10^9) and total_gwei = cl_gwei +
\* el_gwei, also for negative cl_gwei and wei that is no whole number of gwei;
\* the call leaves the cache unchanged
C36_TotalRewards == []TotalRewardsAsDocumented /\ [][CallLeavesCache]_vars

\* A validator with CL -5 gwei and half a gwei of wei, asked for together
\* with a validator that is not in the cache
C36_Witness ==
    /\ gtOut # << >>
    /\ gtPick = (2 :> 5)
    /\ gtOut[1].indices = {1, 2}
    /\ DOMAIN gtOut[1].result = {2}
    /\ gtOut[1].result[2].TotalRewardsGwei = 0 - 5

\* --------------------------------------------------------------------------
\* C7: accumulating the same records of a validator in any two orders gives
\* the same cache entry field by field, the wei sum included, also when some
\* records carry no wei.
C7_AccumulationCommutes == accUsedA = accUsedB => accA = accB

\* Three records in two orders, one without wei, the wei sum carrying into a second byte
C7_Witness ==
    /\ Len(accRecs) = MaxRecords
    /\ accUsedA = 1..MaxRecords
    /\ accUsedB = 1..MaxRecords
    /\ accRecs[1].TxFeeRewardWei = <<>>
    /\ accRecs[2].TxFeeRewardWei = <<255>>
    /\ accRecs[3].TxFeeRewardWei = <<255>>
    /\ accRecs[1].AttestationHeadReward # accRecs[2].AttestationHeadReward
    /\ accA[1].TxFeeRewardWei = <<1, 254>>

\* --------------------------------------------------------------------------
\* Properties of the retry loop
\* --------------------------------------------------------------------------
\* The retry policy of config.DefaultConfig
DefaultRetryPolicy ==
    [f \in {"EpochProcessMaxRetries", "EpochProcessBaseBackoff",
            "EpochProcessMaxBackoff"} |-> DefaultConfig[f]]

\* C10: an epoch gets at most EpochProcessMaxRetries attempts (5 by default),
\* none after a success, and the wait before attempt k+1 is
\* min(base * 2^(k-1), maxBackoff) (2s doubling up to 30s by default).
C10_BoundedAttemptsAndBackoff ==
    /\ [](/\ rAttempt <= rCfg.EpochProcessMaxRetries
          /\ Len(rWaits) = (IF rPc = "wait" THEN rAttempt ELSE rAttempt - 1)
          /\ \A k \in 1..Len(rWaits) :
                rWaits[k] = Min(rCfg.EpochProcessBaseBackoff * Pow2(k - 1),
                                rCfg.EpochProcessMaxBackoff)
          /\ rCfg = DefaultRetryPolicy
                => /\ rAttempt <= 5
                   /\ Len(rWaits) <= 4
                   /\ rWaits = SubSeq(<< 2, 4, 8, 16 >>, 1, Len(rWaits)))
    /\ [][rPc # "succeeded" /\ rPc # "skipped"]_vars

\* Under the defaults the fifth attempt succeeded after the waits 2, 4, 8, 16
C10_Witness ==
    /\ rCfg = DefaultRetryPolicy
    /\ rPc = "succeeded"
    /\ rAttempt = 5
    /\ rWaits = << 2, 4, 8, 16 >>
====
